---- MODULE Spec2Model ----
(***************************************************************************)
(* Growth experiment co-pilot: the monitoring decision engine              *)
(* (MonitoringWorker.analyze_experiment, bayes_prob_better,                *)
(* use_ai_analyst) and the queue-driven monitoring handler                 *)
(* (MonitoringWorker.on_monitor_experiment) with the Chroma store, the     *)
(* Slack sink and the exp.monitor queue it talks to.                       *)
(*                                                                         *)
(* Probabilities and confidences are floats in the program.  Here they are *)
(* integers counted in units of 1/SIMS: the Monte-Carlo estimate is        *)
(* (number of draws where treatment > control) / sims, so every value it   *)
(* can take is k/SIMS, and 0.95, 0.05, 0.5, 0.9, 0.8 are exact multiples.  *)
(***************************************************************************)
EXTENDS Integers, Sequences, FiniteSets, TLC

VARIABLES
    queue,       \* exp.monitor: the messages waiting in the broker, in order
    tasks,       \* one record per handler task of the monitoring worker
    store,       \* ChromaStore.experiments_collection, in insertion order
    now,         \* the event loop's clock, in seconds
    deliveries,  \* number of deliveries the broker has made so far
    call,        \* one evaluation of the decision engine on drawn inputs
    status_log   \* the status updates the admin endpoint has logged

vars == <<queue, tasks, store, now, deliveries, call, status_log>>

----------------------------------------------------------------------------
(* Program constants *)

\* sims: int = 20000, the number of Monte-Carlo draws per posterior
SIMS == 20000

\* self.monitoring_interval = 600
monitoring_interval == 600

\* spec.get("min_sample_size", 2000)
DefaultMinSample == 2000

\* 0.95, 0.05, 0.5, 0.9, 0.8 and 1 in units of 1/SIMS
ShipTreatmentAt == (95 * SIMS) \div 100
ShipControlAt == (5 * SIMS) \div 100
Half == SIMS \div 2
NineTenths == (9 * SIMS) \div 10
DefaultAiConfidence == (8 * SIMS) \div 10
One == SIMS

\* dict.get(key, default)
DictGet(d, k, default) == IF k \in DOMAIN d THEN d[k] ELSE default

Reason(text, args) == [text |-> text, args |-> args]

----------------------------------------------------------------------------
(* Metrics source *)

\* The lookback of get_metric_counts when the caller passes none
DefaultDaysBack == 7

\* A metrics source that answers by key and lookback
MetricCountsByKey(experiment_key, days_back) ==
    IF experiment_key = "exp_a" /\ days_back = DefaultDaysBack
    THEN <<480, 5000, 520, 5000>>
    ELSE <<10 * days_back, 50 * days_back, 11 * days_back, 50 * days_back>>

\* PostHogClient.get_metric_counts: the placeholder returns the same counts
\* (success_control, total_control, success_treatment, total_treatment)
\* for every key and every lookback.
get_metric_counts(experiment_key, days_back) == <<480, 5000, 520, 5000>>

----------------------------------------------------------------------------
(* Decision engine *)

\* The estimate with no error raised on a degenerate parameter.
BayesUnguarded(suc_a, tot_a, suc_b, tot_b, wins) == wins

\* The estimate as the count of winning draws instead of their mean.
BayesCountOfWins(suc_a, tot_a, suc_b, tot_b, wins) ==
    IF suc_a + 1 <= 0 \/ (tot_a - suc_a) + 1 <= 0
          \/ suc_b + 1 <= 0 \/ (tot_b - suc_b) + 1 <= 0
    THEN Half
    ELSE wins * SIMS

\* bayes_prob_better.  wins is the number of the sims draws in which the
\* treatment sample exceeded the control sample; np.random.beta raises on a
\* parameter <= 0 and the handler of that error returns 0.5.
bayes_prob_better(suc_a, tot_a, suc_b, tot_b, wins) ==
    LET a1 == suc_a + 1
        b1 == (tot_a - suc_a) + 1
        a2 == suc_b + 1
        b2 == (tot_b - suc_b) + 1
    IN  IF a1 <= 0 \/ b1 <= 0 \/ a2 <= 0 \/ b2 <= 0 THEN Half ELSE wins

\* The rate branch with both thresholds made exclusive.
RateResultExclusive(prob_better, total_sample) ==
    IF prob_better > ShipTreatmentAt
    THEN [decision |-> "ship_treatment", confidence |-> prob_better,
          sample_size |-> total_sample,
          reason |-> Reason("Strong evidence treatment is better", <<>>),
          prob_treatment_better |-> prob_better]
    ELSE IF prob_better < ShipControlAt
    THEN [decision |-> "ship_control", confidence |-> One - prob_better,
          sample_size |-> total_sample,
          reason |-> Reason("Strong evidence control is better", <<>>),
          prob_treatment_better |-> prob_better]
    ELSE [decision |-> "extend", confidence |-> Half,
          sample_size |-> total_sample,
          reason |-> Reason("Inconclusive results", <<>>),
          prob_treatment_better |-> prob_better]

\* The rate branch of analyze_experiment (lines 101-125).
RateResult(prob_better, total_sample) ==
    IF prob_better >= ShipTreatmentAt
    THEN [decision |-> "ship_treatment", confidence |-> prob_better,
          sample_size |-> total_sample,
          reason |-> Reason("Strong evidence treatment is better", <<>>),
          prob_treatment_better |-> prob_better]
    ELSE IF prob_better <= ShipControlAt
    THEN [decision |-> "ship_control", confidence |-> One - prob_better,
          sample_size |-> total_sample,
          reason |-> Reason("Strong evidence control is better", <<>>),
          prob_treatment_better |-> prob_better]
    ELSE [decision |-> "extend", confidence |-> Half,
          sample_size |-> total_sample,
          reason |-> Reason("Inconclusive results", <<>>),
          prob_treatment_better |-> prob_better]

\* The mean branch of analyze_experiment (lines 127-154): it compares the two
\* success rates, treatment_rate > control_rate * 1.1 and
\* treatment_rate < control_rate * 0.9, a rate being 0 when its total is 0.
\* The comparisons are cross-multiplied here to stay in the integers.
MeanResult(suc_c, tot_c, suc_t, tot_t, total_sample) ==
    LET cn == IF tot_c > 0 THEN suc_c ELSE 0
        cd == IF tot_c > 0 THEN tot_c ELSE 1
        tn == IF tot_t > 0 THEN suc_t ELSE 0
        td == IF tot_t > 0 THEN tot_t ELSE 1
    IN  IF 10 * tn * cd > 11 * cn * td
        THEN [decision |-> "ship_treatment", confidence |-> NineTenths,
              sample_size |-> total_sample,
              reason |-> Reason("Treatment shows improvement", <<>>)]
        ELSE IF 10 * tn * cd < 9 * cn * td
        THEN [decision |-> "ship_control", confidence |-> NineTenths,
              sample_size |-> total_sample,
              reason |-> Reason("Treatment shows degradation", <<>>)]
        ELSE [decision |-> "extend", confidence |-> Half,
              sample_size |-> total_sample,
              reason |-> Reason("No clear difference", <<>>)]

\* analyze_experiment with the sample gate applied after the dispatch on the
\* metric type, so that only the unknown-type branch is gated.
AnalyzeGateAfterDispatch(spec, fetched, wins) ==
    IF ~fetched.ok
    THEN [decision |-> "extend", confidence |-> Half, sample_size |-> 0,
          reason |-> Reason("Analysis error", <<>>)]
    ELSE
    LET suc_c == fetched.counts[1]
        tot_c == fetched.counts[2]
        suc_t == fetched.counts[3]
        tot_t == fetched.counts[4]
        total_sample == tot_c + tot_t
        min_sample == DictGet(spec, "min_sample_size", DefaultMinSample)
        metric_type == DictGet(DictGet(spec, "primary_metric", <<>>), "type", "rate")
    IN  IF metric_type = "rate"
        THEN RateResult(bayes_prob_better(suc_c, tot_c, suc_t, tot_t, wins), total_sample)
        ELSE IF metric_type = "mean"
        THEN MeanResult(suc_c, tot_c, suc_t, tot_t, total_sample)
        ELSE IF total_sample < min_sample
        THEN [decision |-> "extend", confidence |-> Half,
              sample_size |-> total_sample,
              reason |-> Reason("Insufficient sample size", <<total_sample, min_sample>>)]
        ELSE [decision |-> "extend", confidence |-> Half,
              sample_size |-> total_sample,
              reason |-> Reason("Unknown metric type", <<metric_type>>)]

\* analyze_experiment with every type other than mean sent to the rate test.
AnalyzeUnknownAsRate(spec, fetched, wins) ==
    IF ~fetched.ok
    THEN [decision |-> "extend", confidence |-> Half, sample_size |-> 0,
          reason |-> Reason("Analysis error", <<>>)]
    ELSE
    LET total_sample == fetched.counts[2] + fetched.counts[4]
        min_sample == DictGet(spec, "min_sample_size", DefaultMinSample)
        metric_type == DictGet(DictGet(spec, "primary_metric", <<>>), "type", "rate")
    IN  IF total_sample < min_sample
        THEN [decision |-> "extend", confidence |-> Half,
              sample_size |-> total_sample,
              reason |-> Reason("Insufficient sample size", <<total_sample, min_sample>>)]
        ELSE IF metric_type = "mean"
        THEN MeanResult(fetched.counts[1], fetched.counts[2],
                        fetched.counts[3], fetched.counts[4], total_sample)
        ELSE RateResult(bayes_prob_better(fetched.counts[1], fetched.counts[2],
                                          fetched.counts[3], fetched.counts[4], wins),
                        total_sample)

\* analyze_experiment without its except branch: an error of the metrics
\* source comes out of the call.
AnalyzeFetchErrorRaises(spec, fetched, wins) ==
    IF ~fetched.ok
    THEN [decision |-> "raised", confidence |-> 0, sample_size |-> 0,
          reason |-> Reason("raised", <<>>)]
    ELSE
    LET suc_c == fetched.counts[1]
        tot_c == fetched.counts[2]
        suc_t == fetched.counts[3]
        tot_t == fetched.counts[4]
        total_sample == tot_c + tot_t
        min_sample == DictGet(spec, "min_sample_size", DefaultMinSample)
        metric_type == DictGet(DictGet(spec, "primary_metric", <<>>), "type", "rate")
    IN  IF total_sample < min_sample
        THEN [decision |-> "extend", confidence |-> Half,
              sample_size |-> total_sample,
              reason |-> Reason("Insufficient sample size", <<total_sample, min_sample>>)]
        ELSE IF metric_type = "rate"
        THEN RateResult(bayes_prob_better(suc_c, tot_c, suc_t, tot_t, wins), total_sample)
        ELSE IF metric_type = "mean"
        THEN MeanResult(suc_c, tot_c, suc_t, tot_t, total_sample)
        ELSE [decision |-> "extend", confidence |-> Half,
              sample_size |-> total_sample,
              reason |-> Reason("Unknown metric type", <<metric_type>>)]
\* analyze_experiment.  fetched is what get_metric_counts gave: either the
\* four counts, or an error raised by the call; wins is the Monte-Carlo
\* outcome the rate branch would see.
analyze_experiment(spec, fetched, wins) ==
    IF ~fetched.ok
    THEN [decision |-> "extend", confidence |-> Half, sample_size |-> 0,
          reason |-> Reason("Analysis error", <<>>)]
    ELSE
    LET suc_c == fetched.counts[1]
        tot_c == fetched.counts[2]
        suc_t == fetched.counts[3]
        tot_t == fetched.counts[4]
        total_sample == tot_c + tot_t
        min_sample == DictGet(spec, "min_sample_size", DefaultMinSample)
        metric_type == DictGet(DictGet(spec, "primary_metric", <<>>), "type", "rate")
    IN  IF total_sample < min_sample
        THEN [decision |-> "extend", confidence |-> Half,
              sample_size |-> total_sample,
              reason |-> Reason("Insufficient sample size", <<total_sample, min_sample>>)]
        ELSE IF metric_type = "rate"
        THEN RateResult(bayes_prob_better(suc_c, tot_c, suc_t, tot_t, wins), total_sample)
        ELSE IF metric_type = "mean"
        THEN MeanResult(suc_c, tot_c, suc_t, tot_t, total_sample)
        ELSE [decision |-> "extend", confidence |-> Half,
              sample_size |-> total_sample,
              reason |-> Reason("Unknown metric type", <<metric_type>>)]

----------------------------------------------------------------------------
(* Advisory reviewer *)

\* .lower() on the word captured after "DECISION:"
Lower(word) ==
    CASE word = "SHIP_TREATMENT" -> "ship_treatment"
      [] word = "Ship_Control" -> "ship_control"
      [] word = "EXTEND" -> "extend"
      [] OTHER -> word

\* What one advisory call came to.  outcome: create_monitoring_chat raised
\* ("create_error"), a_initiate_chat raised ("call_error"), the last
\* chat_history entry is not a string so re.search raises ("not_text"), or a
\* text came back ("text").  For a text, decision is the word after
\* "DECISION:" ("none": no such token) and confidence says what follows
\* "CONFIDENCE:": no token at all ("absent"), something [\d.]+ does not
\* match, such as "high" ("nonnumeric"), digits and dots float() rejects,
\* such as "0.9.1" ("malformed"), or a number ("value").
AiReply(outcome, decision, kind, value) ==
    [outcome |-> outcome, decision |-> decision,
     confidence |-> [kind |-> kind, value |-> value]]

\* use_ai_analyst, from the reply on (lines 199-225).
use_ai_analyst(analysis_result, ai) ==
    IF ai.outcome # "text" THEN analysis_result
    ELSE IF ai.decision = "none" THEN analysis_result
    ELSE IF ai.confidence.kind = "malformed" THEN analysis_result
    ELSE
    LET ai_decision == Lower(ai.decision)
        ai_confidence == IF ai.confidence.kind = "value"
                         THEN ai.confidence.value
                         ELSE DefaultAiConfidence
    IN  IF ai_confidence > DictGet(analysis_result, "confidence", 0)
        THEN [decision |-> ai_decision, confidence |-> ai_confidence,
              sample_size |-> DictGet(analysis_result, "sample_size", 0),
              reason |-> Reason("AI override", <<>>),
              ai_override |-> TRUE]
        ELSE analysis_result

----------------------------------------------------------------------------
(* Inputs the decision engine is evaluated on *)

MetricTypes == {"rate", "mean", "revenue"}

MinSamples == {100, 2000, 10001}

\* Specs as the engine reads them: min_sample_size and primary_metric.type,
\* each present or missing.
SpecInputs ==
    {[min_sample_size |-> m, primary_metric |-> [type |-> t]] :
        m \in MinSamples, t \in MetricTypes}
    \cup {[primary_metric |-> [type |-> t]] : t \in MetricTypes}
    \cup {[min_sample_size |-> m] : m \in MinSamples}

CountInputs ==
    {<<480, 5000, 520, 5000>>, <<10, 50, 11, 50>>, <<0, 50, 50, 50>>,
     <<50, 50, 0, 50>>, <<0, 0, 0, 0>>, <<60, 50, 10, 50>>,
     <<1000, 1000, 0, 1000>>, <<100, 1000, 110, 1000>>, <<48, 95, 5, 5>>,
     <<100, 1000, 123, 1000>>}

FetchInputs ==
    {[ok |-> TRUE, counts |-> c] : c \in CountInputs}
    \cup {[ok |-> FALSE, counts |-> <<0, 0, 0, 0>>]}

\* Monte-Carlo outcomes: both ends, both thresholds and their neighbours,
\* and 18180 of 20000 (0.909), the level of the estimate on the counts of
\* get_metric_counts.
WinInputs ==
    {0, ShipControlAt - 1, ShipControlAt, ShipControlAt + 1, Half, 18180,
     ShipTreatmentAt - 1, ShipTreatmentAt, ShipTreatmentAt + 1, SIMS}

DecisionWords ==
    {"ship_treatment", "Ship_Control", "EXTEND", "stop", "approve"}

AiConfidenceValues ==
    {0, Half, Half + 1, DefaultAiConfidence, ShipTreatmentAt, One, 95 * SIMS}

AiInputs ==
    {AiReply(o, "none", "absent", 0) : o \in {"create_error", "call_error", "not_text"}}
    \cup {AiReply("text", d, "value", v) :
            d \in DecisionWords \cup {"none"}, v \in AiConfidenceValues}
    \cup {AiReply("text", d, k, 0) :
            d \in DecisionWords \cup {"none"},
            k \in {"absent", "nonnumeric", "malformed"}}

NoResult == [decision |-> "none"]

NoReply == AiReply("none", "none", "absent", 0)

Idle == [stage |-> "idle"]

----------------------------------------------------------------------------
(* The decision engine evaluated on drawn inputs *)

InitEngine ==
    /\ queue = <<>>
    /\ tasks = <<>>
    /\ store = <<>>
    /\ now = 0
    /\ deliveries = 0
    /\ status_log = {}
    /\ \E s \in SpecInputs, f \in FetchInputs, w \in WinInputs :
          call = [stage |-> "input", spec |-> s, fetched |-> f, wins |-> w,
                  analysis |-> NoResult, ai |-> NoReply, final |-> NoResult]

Analyze ==
    /\ call.stage = "input"
    /\ call' = [call EXCEPT !.stage = "analyzed",
                  !.analysis = analyze_experiment(call.spec, call.fetched, call.wins)]
    /\ UNCHANGED <<queue, tasks, store, now, deliveries, status_log>>

Review ==
    /\ call.stage = "analyzed"
    /\ \E ai \in AiInputs :
          call' = [call EXCEPT !.stage = "reviewed", !.ai = ai,
                     !.final = use_ai_analyst(call.analysis, ai)]
    /\ UNCHANGED <<queue, tasks, store, now, deliveries, status_log>>

NextEngine == Analyze \/ Review

SpecEngine == InitEngine /\ [][NextEngine]_vars

----------------------------------------------------------------------------
(* Experiment store *)

\* The metadata store_experiment attaches to every record it adds.
Metadata(experiment_key, time, has_outcome) ==
    [experiment_key |-> experiment_key, type |-> "experiment",
     created_at |-> time, outcome |-> has_outcome]

\* A dict without entries, as handle_experiment_decision passes for the spec
EmptyDict == <<>>

\* An ExperimentSpec as model_dump gives it, with the fields read here.  mde
\* is in hundredths.
ExperimentSpec(key, variants, mde, min_sample_size, type) ==
    [key |-> key, variants |-> variants, mde |-> mde,
     min_sample_size |-> min_sample_size, primary_metric |-> [type |-> type]]

\* The spec the schema's defaults give for a rate metric
DefaultSpec(key) ==
    ExperimentSpec(key, <<"control", "treatment">>, 5, DefaultMinSample, "rate")

\* The document store_experiment writes: the key and, of the spec, its
\* variants, MDE and sample size ("N/A" when the spec has none; hypothesis
\* and metric name are left out here); for an outcome its decision,
\* confidence and final sample size (reason and timestamp of the outcome
\* dict are not written).
Content(experiment_key, spec, outcome) ==
    LET document == [experiment |-> experiment_key,
                     variants |-> DictGet(spec, "variants", <<>>),
                     mde |-> DictGet(spec, "mde", "N/A"),
                     sample_size |-> DictGet(spec, "min_sample_size", "N/A")]
    IN  IF outcome = NoResult
        THEN document
        ELSE [experiment |-> document.experiment, variants |-> document.variants,
              mde |-> document.mde, sample_size |-> document.sample_size,
              outcome |-> outcome.decision,
              confidence |-> outcome.confidence,
              final_sample_size |-> outcome.final_sample_size]


\* A store that keeps one record per key: a write for a key that has a
\* record replaces the first such record.
StoreUpsert(collection, experiment_key, spec, outcome, time, ok) ==
    LET record == [content |-> Content(experiment_key, spec, outcome),
                   metadata |-> Metadata(experiment_key, time, outcome # NoResult)]
        same == {i \in 1..Len(collection) :
                    collection[i].metadata.experiment_key = experiment_key}
    IN  IF ~ok THEN collection
        ELSE IF same = {} THEN Append(collection, record)
        ELSE [collection EXCEPT ![CHOOSE i \in same : \A j \in same : i <= j] = record]
\* ChromaStore.store_experiment: adds one record to the collection; an error
\* of the collection (ok = FALSE) is logged and nothing is added.
store_experiment(collection, experiment_key, spec, outcome, time, ok) ==
    IF ok
    THEN Append(collection,
                [content |-> Content(experiment_key, spec, outcome),
                 metadata |-> Metadata(experiment_key, time, outcome # NoResult)])
    ELSE collection

\* ChromaStore.retrieve_similar_experiments: a nearest-neighbour query over
\* the whole collection, with no filter on the key.  It returns the records
\* closest to the query text, so it is empty only when the collection is
\* empty or the query fails (ok = FALSE).  Callers use the result's
\* emptiness and its first element; nearest is the position of the record
\* the embedding ranks first.
retrieve_similar_experiments(collection, nearest, ok) ==
    IF ~ok \/ collection = <<>>
    THEN <<>>
    ELSE <<collection[nearest]>>

\* The dict handle_experiment_decision builds (lines 232-238)
Outcome(decision, confidence, sample_size, reason, time) ==
    [decision |-> decision, confidence |-> confidence,
     final_sample_size |-> sample_size, reason |-> reason, timestamp |-> time]

----------------------------------------------------------------------------
(* Monitoring worker *)

Keys == {"exp_a", "exp_b"}

Tasks == {"t1", "t2"}

\* Deliveries the broker makes in one run of the model
MaxDeliveries == 2

\* The worker starts the free task that comes first.
TaskOrder(t) == IF t = "t1" THEN 1 ELSE 2

Terminal == {"ship_treatment", "ship_control", "stop"}

\* A message of exp.monitor.  id tells messages apart (the first event has
\* id 1, the continuation published by the n-th delivery has id n + 1); a
\* body that is not JSON has kind "malformed".
Message(id, kind, experiment_key) ==
    [id |-> id, kind |-> kind, experiment_key |-> experiment_key]

\* Monte-Carlo outcomes and advisory replies the handler is run on
TaskWins == {ShipControlAt, Half, ShipTreatmentAt}

TaskReplies ==
    {AiReply("call_error", "none", "absent", 0),
     AiReply("text", "stop", "value", One)}

IdleTask ==
    [pc |-> "idle", msg |-> Message(0, "none", "none"), delivery_tag |-> 0,
     decided_at_delivery |-> FALSE,
     analysis_result |-> NoResult, final_result |-> NoResult,
     store_ok |-> TRUE, wrote |-> 0, notification |-> NoResult,
     slept_from |-> 0, wake_at |-> 0, published |-> <<>>, published_at |-> 0,
     requeued |-> FALSE, settle |-> <<>>]

\* The key has a terminal outcome record in the collection.
Decided(collection, experiment_key) ==
    \E i \in 1..Len(collection) :
        /\ collection[i].metadata.experiment_key = experiment_key
        /\ collection[i].metadata.outcome
        /\ collection[i].content.outcome \in Terminal

\* SlackClient.post_experiment_decision: the message handed to send_message
\* and whether either channel delivered it.
post_experiment_decision(experiment_key, decision, confidence, sample_size, delivered) ==
    [experiment_key |-> experiment_key, decision |-> decision,
     confidence |-> confidence, sample_size |-> sample_size,
     delivered |-> delivered]

\* A notification that was not delivered raising into the handler.
UndeliveredRaises(delivered) == ~delivered

\* Whether the Slack call of handle_experiment_decision raises into
\* on_monitor_experiment: send_message reports a failure as False, and
\* handle_experiment_decision catches whatever is raised (lines 280-281).
NotificationRaises(delivered) == FALSE

\* The re-enqueue test applied to every decision.
IsAnyDecision(final_result) == final_result.decision # "none"

\* line 318: if final_result["decision"] == "extend"
IsExtend(final_result) == final_result.decision = "extend"

\* A sleep that returns at once.
WakeTimeAtOnce(time) == time

\* line 320: await asyncio.sleep(self.monitoring_interval), begun at time
WakeTime(time) == time + monitoring_interval

\* line 334: await msg.reject(requeue=False), the only settlement the handler
\* makes itself; a reject with requeue would be recorded as "requeue".
reject(requeue) == IF requeue THEN <<"requeue">> ELSE <<"reject">>

\* Leaving the message context with an acknowledgement whatever happened.
process_exit_acks_always(settled) == Append(settled, "ack")


\* A processing context that settles nothing when it is left.
process_exit_settles_nothing(settled) == settled
\* line 285: leaving "async with msg.process()" without an exception
\* acknowledges the message unless it was settled inside the block; the
\* acknowledgement of a message already rejected is refused by the client
\* library before anything is sent to the broker.
process_exit(settled) == IF settled = <<>> THEN <<"ack">> ELSE settled

\* lines 322-325
extend_payload(experiment_key) ==
    [experiment_key |-> experiment_key, status |-> "continue_monitoring"]

Init ==
    /\ queue \in {<<Message(1, "json", k)>> : k \in Keys}
                   \cup {<<Message(1, "malformed", "none")>>}
    /\ tasks = [t \in Tasks |-> IdleTask]
    /\ store \in {<<>>, store_experiment(<<>>, "exp_a", DefaultSpec("exp_a"), NoResult, 0, TRUE)}
    /\ now = 0
    /\ deliveries = 0
    /\ call = Idle
    /\ status_log = {}


\* A worker whose sleep blocks: nothing is consumed while a handler sleeps.
DeliverBlockedBySleep(t) ==
    /\ queue # <<>>
    /\ \A u \in Tasks : tasks[u].pc # "sleep"
    /\ tasks[t].pc \in {"idle", "done"}
    /\ \A u \in Tasks : tasks[u].pc \in {"idle", "done"} => TaskOrder(t) <= TaskOrder(u)
    /\ deliveries < MaxDeliveries
    /\ deliveries' = deliveries + 1
    /\ queue' = Tail(queue)
    /\ LET msg == Head(queue)
           experiment_key == msg.experiment_key
           fresh == [IdleTask EXCEPT !.msg = msg, !.delivery_tag = deliveries + 1,
                        !.decided_at_delivery = Decided(store, experiment_key)]
       IN  IF msg.kind = "malformed"
           THEN tasks' = [tasks EXCEPT ![t] =
                    [fresh EXCEPT !.pc = "done", !.settle = process_exit(reject(FALSE))]]
           ELSE \E ok \in BOOLEAN, nearest \in 1..(IF store = <<>> THEN 1 ELSE Len(store)) :
                  LET similar_experiments ==
                          retrieve_similar_experiments(store, nearest, ok)
                  IN  IF similar_experiments = <<>>
                      THEN tasks' = [tasks EXCEPT ![t] =
                               [fresh EXCEPT !.pc = "done", !.settle = process_exit(<<>>)]]
                      ELSE \E wins \in TaskWins :
                             LET spec == similar_experiments[1].metadata
                                 fetched == [ok |-> TRUE,
                                             counts |-> get_metric_counts(experiment_key,
                                                                          DefaultDaysBack)]
                             IN  tasks' = [tasks EXCEPT ![t] =
                                    [fresh EXCEPT !.pc = "advisory",
                                       !.analysis_result =
                                           analyze_experiment(spec, fetched, wins)]]
    /\ UNCHANGED <<store, now, call, status_log>>
\* The broker delivers the head of exp.monitor and the handler runs up to its
\* first suspension (lines 285-306): a body that is not JSON raises and is
\* rejected without requeue; an empty lookup returns, which acknowledges;
\* otherwise the first result's metadata is taken as the spec, the experiment
\* is analyzed and the advisory call is started.
Deliver(t) ==
    /\ queue # <<>>
    /\ tasks[t].pc \in {"idle", "done"}
    /\ \A u \in Tasks : tasks[u].pc \in {"idle", "done"} => TaskOrder(t) <= TaskOrder(u)
    /\ deliveries < MaxDeliveries
    /\ deliveries' = deliveries + 1
    /\ queue' = Tail(queue)
    /\ LET msg == Head(queue)
           experiment_key == msg.experiment_key
           fresh == [IdleTask EXCEPT !.msg = msg, !.delivery_tag = deliveries + 1,
                        !.decided_at_delivery = Decided(store, experiment_key)]
       IN  IF msg.kind = "malformed"
           THEN tasks' = [tasks EXCEPT ![t] =
                    [fresh EXCEPT !.pc = "done", !.settle = process_exit(reject(FALSE))]]
           ELSE \E ok \in BOOLEAN, nearest \in 1..(IF store = <<>> THEN 1 ELSE Len(store)) :
                  LET similar_experiments ==
                          retrieve_similar_experiments(store, nearest, ok)
                  IN  IF similar_experiments = <<>>
                      THEN tasks' = [tasks EXCEPT ![t] =
                               [fresh EXCEPT !.pc = "done", !.settle = process_exit(<<>>)]]
                      ELSE \E wins \in TaskWins :
                             LET spec == similar_experiments[1].metadata
                                 fetched == [ok |-> TRUE,
                                             counts |-> get_metric_counts(experiment_key,
                                                                          DefaultDaysBack)]
                             IN  tasks' = [tasks EXCEPT ![t] =
                                    [fresh EXCEPT !.pc = "advisory",
                                       !.analysis_result =
                                           analyze_experiment(spec, fetched, wins)]]
    /\ UNCHANGED <<store, now, call, status_log>>


\* A decision handler in which a store failure is raised into the message
\* handler: no notification, and the message is rejected.
AdviseWithStoreRaising(t, replies) ==
    /\ tasks[t].pc = "advisory"
    /\ \E ai \in replies, io \in {"ok", "query_fails", "write_fails"},
          nearest \in 1..(IF store = <<>> THEN 1 ELSE Len(store)) :
          LET experiment_key == tasks[t].msg.experiment_key
              final_result == use_ai_analyst(tasks[t].analysis_result, ai)
              outcome == Outcome(final_result.decision, final_result.confidence,
                                 final_result.sample_size, final_result.reason, now)
              similar_experiments ==
                  retrieve_similar_experiments(store, nearest, io # "query_fails")
              written == IF similar_experiments # <<>>
                         THEN store_experiment(store, experiment_key, EmptyDict, outcome, now,
                                               io = "ok")
                         ELSE store
          IN  /\ store' = written
              /\ tasks' = [tasks EXCEPT ![t] =
                    IF io = "ok"
                    THEN [@ EXCEPT !.pc = "notify", !.final_result = final_result,
                            !.store_ok = TRUE,
                            !.wrote = IF written # store THEN Len(written) ELSE 0]
                    ELSE [@ EXCEPT !.pc = "done", !.final_result = final_result,
                            !.store_ok = FALSE,
                            !.settle = process_exit(reject(FALSE))]]
    /\ UNCHANGED <<queue, now, deliveries, call, status_log>>
\* The advisory call ends; use_ai_analyst returns and
\* handle_experiment_decision runs up to the Slack call (lines 199-247): it
\* looks the key up again and, if anything comes back, adds the outcome.
AdviseWith(t, replies) ==
    /\ tasks[t].pc = "advisory"
    /\ \E ai \in replies, io \in {"ok", "query_fails", "write_fails"},
          nearest \in 1..(IF store = <<>> THEN 1 ELSE Len(store)) :
          LET experiment_key == tasks[t].msg.experiment_key
              final_result == use_ai_analyst(tasks[t].analysis_result, ai)
              outcome == Outcome(final_result.decision, final_result.confidence,
                                 final_result.sample_size, final_result.reason, now)
              similar_experiments ==
                  retrieve_similar_experiments(store, nearest, io # "query_fails")
              written == IF similar_experiments # <<>>
                         THEN store_experiment(store, experiment_key, EmptyDict, outcome, now,
                                               io = "ok")
                         ELSE store
          IN  /\ store' = written
              /\ tasks' = [tasks EXCEPT ![t] =
                    [@ EXCEPT !.pc = "notify", !.final_result = final_result,
                       !.store_ok = (io = "ok"),
                       !.wrote = IF written # store THEN Len(written) ELSE 0]]
    /\ UNCHANGED <<queue, now, deliveries, call, status_log>>

\* The monitoring worker's handler, on the replies it is run on here
Advise(t) == AdviseWith(t, TaskReplies)


\* A handler that acknowledges its message before the extend sleep.
NotifyAcksBeforeSleep(t) ==
    /\ tasks[t].pc = "notify"
    /\ \E delivered \in BOOLEAN :
          LET sent == post_experiment_decision(tasks[t].msg.experiment_key,
                          tasks[t].final_result.decision,
                          tasks[t].final_result.confidence,
                          tasks[t].final_result.sample_size, delivered)
          IN  tasks' = [tasks EXCEPT ![t] =
                 IF NotificationRaises(delivered)
                 THEN [@ EXCEPT !.pc = "done", !.notification = sent,
                         !.settle = process_exit(reject(FALSE))]
                 ELSE IF IsExtend(tasks[t].final_result)
                 THEN [@ EXCEPT !.pc = "sleep", !.notification = sent,
                         !.settle = <<"ack">>,
                         !.slept_from = now, !.wake_at = WakeTime(now)]
                 ELSE [@ EXCEPT !.pc = "done", !.notification = sent,
                         !.settle = process_exit(<<>>)]]
    /\ UNCHANGED <<queue, store, now, deliveries, call, status_log>>
\* SlackClient.post_experiment_decision returns, delivered or not; the rest
\* of handle_experiment_decision only logs.  An error raised into
\* on_monitor_experiment would reach its except branch (lines 332-334).  Back in the handler (lines
\* 317-320) an extend starts the sleep, anything else leaves the handler,
\* which acknowledges the message.
Notify(t) ==
    /\ tasks[t].pc = "notify"
    /\ \E delivered \in BOOLEAN :
          LET sent == post_experiment_decision(tasks[t].msg.experiment_key,
                          tasks[t].final_result.decision,
                          tasks[t].final_result.confidence,
                          tasks[t].final_result.sample_size, delivered)
          IN  tasks' = [tasks EXCEPT ![t] =
                 IF NotificationRaises(delivered)
                 THEN [@ EXCEPT !.pc = "done", !.notification = sent,
                         !.settle = process_exit(reject(FALSE))]
                 ELSE IF IsExtend(tasks[t].final_result)
                 THEN [@ EXCEPT !.pc = "sleep", !.notification = sent,
                         !.slept_from = now, !.wake_at = WakeTime(now)]
                 ELSE [@ EXCEPT !.pc = "done", !.notification = sent,
                         !.settle = process_exit(<<>>)]]
    /\ UNCHANGED <<queue, store, now, deliveries, call, status_log>>

\* The sleep of line 320 ends, no earlier than its wake time and after every
\* sleep due before it; the continuation publish is started (lines 322-330).
Wake(t) ==
    /\ tasks[t].pc = "sleep"
    /\ \A u \in Tasks : tasks[u].pc = "sleep" => tasks[u].wake_at >= tasks[t].wake_at
    /\ now' = IF now >= tasks[t].wake_at THEN now ELSE tasks[t].wake_at
    /\ tasks' = [tasks EXCEPT ![t] = [@ EXCEPT !.pc = "publish"]]
    /\ UNCHANGED <<queue, store, deliveries, call, status_log>>


\* A loop with an iteration bound: the handler of a continuation publishes
\* no further continuation.
PublishOnce(t) ==
    /\ tasks[t].pc = "publish"
    /\ \E ok \in BOOLEAN :
          IF ok /\ tasks[t].msg.id = 1
          THEN LET body == extend_payload(tasks[t].msg.experiment_key)
                   m == Message(tasks[t].delivery_tag + 1, "json", body.experiment_key)
               IN  /\ queue' = Append(queue, m)
                   /\ tasks' = [tasks EXCEPT ![t] =
                         [@ EXCEPT !.pc = "done", !.published = Append(@, m),
                            !.published_at = now, !.settle = process_exit(<<>>)]]
          ELSE /\ queue' = queue
               /\ tasks' = [tasks EXCEPT ![t] =
                     [@ EXCEPT !.pc = "done",
                        !.settle = IF ok THEN process_exit(<<>>)
                                   ELSE process_exit(reject(FALSE))]]
    /\ UNCHANGED <<store, now, deliveries, call, status_log>>
\* The publish to exp.monitor ends: the continuation is in the queue and the
\* handler leaves, which acknowledges the consumed message; or the publish
\* raised, and the handler rejects the consumed message without requeue.
Publish(t) ==
    /\ tasks[t].pc = "publish"
    /\ \E ok \in BOOLEAN :
          IF ok
          THEN LET body == extend_payload(tasks[t].msg.experiment_key)
                   m == Message(tasks[t].delivery_tag + 1, "json", body.experiment_key)
               IN  /\ queue' = Append(queue, m)
                   /\ tasks' = [tasks EXCEPT ![t] =
                         [@ EXCEPT !.pc = "done", !.published = Append(@, m),
                            !.published_at = now, !.settle = process_exit(<<>>)]]
          ELSE /\ queue' = queue
               /\ tasks' = [tasks EXCEPT ![t] =
                     [@ EXCEPT !.pc = "done", !.settle = process_exit(reject(FALSE))]]
    /\ UNCHANGED <<store, now, deliveries, call, status_log>>

\* At-least-once delivery: the broker puts a message that is still
\* unacknowledged back at the head of the queue (its connection to the
\* consumer was reset) while the handler that holds it keeps running.
Requeue(t) ==
    /\ tasks[t].pc \notin {"idle", "done"}
    /\ ~tasks[t].requeued
    /\ queue' = <<tasks[t].msg>> \o queue
    /\ tasks' = [tasks EXCEPT ![t] = [@ EXCEPT !.requeued = TRUE]]
    /\ UNCHANGED <<store, now, deliveries, call, status_log>>

Next ==
    \E t \in Tasks :
        \/ Deliver(t)
        \/ Advise(t)
        \/ Notify(t)
        \/ Wake(t)
        \/ Publish(t)
        \/ Requeue(t)

Spec == Init /\ [][Next]_vars

----------------------------------------------------------------------------
(* Properties of the monitoring handler, checked under Spec *)

\* The task has an effective decision.
HasDecision(t) == tasks[t].final_result # NoResult

KeyOf(t) == tasks[t].msg.experiment_key

\* The task's own record, if it wrote one, is in the store as written.
OwnRecordKept(t) ==
    tasks[t].wrote # 0 =>
        /\ tasks[t].wrote <= Len(store)
        /\ store[tasks[t].wrote].metadata.experiment_key = KeyOf(t)
        /\ store[tasks[t].wrote].metadata.outcome
        /\ store[tasks[t].wrote].content.outcome = tasks[t].final_result.decision

FirstTerminalDecision(collection, experiment_key) ==
    LET terminal == {i \in 1..Len(collection) :
                        /\ collection[i].metadata.experiment_key = experiment_key
                        /\ collection[i].metadata.outcome
                        /\ collection[i].content.outcome \in Terminal}
        first == CHOOSE i \in terminal : \A j \in terminal : i <= j
    IN  collection[first].content.outcome

\* C5: a MonitorEvent delivered for a key that is already DECIDED writes no
\* outcome record whose decision differs from the key's first terminal one.
C5_DecidedKeyKeepsDecision ==
    \A t \in Tasks :
        (tasks[t].decided_at_delivery /\ tasks[t].wrote # 0) =>
            store[tasks[t].wrote].content.outcome =
                FirstTerminalDecision(store, KeyOf(t))

\* C5 witness: an event delivered for a decided key went through analysis.
C5_Witness ==
    \E t \in Tasks :
        /\ tasks[t].decided_at_delivery
        /\ tasks[t].analysis_result # NoResult

\* C6: two deliveries of the same MonitorEvent that are in flight together
\* never both leave a terminal outcome record for the key with decisions
\* that differ, each from the counts its own handler fetched.
C6_ConcurrentDeliveriesAgree ==
    \A t, u \in Tasks :
        (/\ t # u
         /\ tasks[t].msg.id = tasks[u].msg.id
         /\ tasks[t].pc = "notify" /\ tasks[u].pc = "notify"
         /\ tasks[t].wrote # 0 /\ tasks[u].wrote # 0
         /\ store[tasks[t].wrote].content.outcome \in Terminal
         /\ store[tasks[u].wrote].content.outcome \in Terminal)
        => store[tasks[t].wrote].content.outcome =
               store[tasks[u].wrote].content.outcome

\* C6 witness: two handlers hold the same event at the same time.
C6_Witness ==
    \E t, u \in Tasks :
        /\ t # u
        /\ tasks[t].msg.id = tasks[u].msg.id
        /\ tasks[t].pc = "advisory" /\ tasks[u].pc = "advisory"

\* The collection holds a spec record (a record without outcome) of the key.
HasSpec(collection, experiment_key) ==
    \E i \in 1..Len(collection) :
        /\ collection[i].metadata.experiment_key = experiment_key
        /\ ~collection[i].metadata.outcome

\* The handler dropped its event: no analysis, record, notification or
\* continuation, and the event acknowledged (so never requeued).
Dropped(t) ==
    /\ tasks[t].pc = "done"
    /\ tasks[t].analysis_result = NoResult
    /\ tasks[t].final_result = NoResult
    /\ tasks[t].wrote = 0
    /\ tasks[t].notification = NoResult
    /\ tasks[t].published = <<>>
    /\ tasks[t].settle = <<"ack">>

\* C7: an event whose key has no spec in the store is dropped.  (Records are
\* only ever added, so a key without a spec now had none at delivery.)
C7_NoSpecDrops ==
    \A t \in Tasks :
        (tasks[t].msg.kind = "json" /\ ~HasSpec(store, KeyOf(t))) => Dropped(t)

\* C7, what the code does drop: an event consumed while the collection is
\* empty.
C7_EmptyStoreDrops ==
    \A t \in Tasks :
        (tasks[t].msg.kind = "json" /\ store = <<>>) => Dropped(t)

\* C7 witness: an event for a key without a spec was analyzed and recorded.
C7_Witness ==
    \E t \in Tasks :
        /\ ~HasSpec(store, KeyOf(t))
        /\ tasks[t].analysis_result # NoResult
        /\ tasks[t].wrote # 0

\* C10: a failed notification does not abort persistence.  Whenever a
\* handler has sent its notification, the outcome write came first (the
\* record is there whenever the store answered the lookup and took the
\* write); a notification that was not delivered leaves that record in
\* place, and on extend the handler still sleeps and, when the broker takes
\* the publish, still publishes its continuation.
C10_NotificationFailureHarmless ==
    \A t \in Tasks :
        tasks[t].notification # NoResult =>
            /\ HasDecision(t)
            /\ tasks[t].store_ok => tasks[t].wrote # 0
            /\ OwnRecordKept(t)
            /\ (~tasks[t].notification.delivered
                    /\ tasks[t].final_result.decision = "extend") =>
                  /\ tasks[t].pc \in {"sleep", "publish", "done"}
                  /\ tasks[t].pc = "done" =>
                        \/ Len(tasks[t].published) = 1 /\ tasks[t].settle = <<"ack">>
                        \/ /\ tasks[t].published = <<>>
                           /\ tasks[t].settle = <<"reject">>
                           /\ tasks[t].slept_from + monitoring_interval <= now

\* C10 witness: the notification of an extend was not delivered, and the
\* handler has its record in the store and its continuation published.
C10_Witness ==
    \E t \in Tasks :
        /\ tasks[t].notification # NoResult
        /\ ~tasks[t].notification.delivered
        /\ tasks[t].final_result.decision = "extend"
        /\ tasks[t].wrote # 0
        /\ tasks[t].pc = "done"
        /\ Len(tasks[t].published) = 1


----------------------------------------------------------------------------
(* Settlement of the consumed message, checked under Spec *)

\* An acknowledgement of the task's message reached the broker.
Acked(t) == \E i \in 1..Len(tasks[t].settle) : tasks[t].settle[i] = "ack"

\* The handler settled the task's message with reject(requeue=False).
Rejected(t) == \E i \in 1..Len(tasks[t].settle) : tasks[t].settle[i] = "reject"

\* C11: a monitoring message is acknowledged only once its handler has run
\* to its end: with a decision, after the notification, and on extend after
\* the wait and the continuation publish.  A message whose handler failed
\* (a body that is not JSON, a publish that raised) is rejected without
\* requeue, is never acknowledged, and is not put back by the handler.
C11_AckAfterCompletion ==
    \A t \in Tasks :
        /\ Acked(t) =>
              /\ tasks[t].pc = "done"
              /\ tasks[t].settle = <<"ack">>
              /\ HasDecision(t) => tasks[t].notification # NoResult
              /\ (HasDecision(t) /\ IsExtend(tasks[t].final_result)) =>
                    /\ Len(tasks[t].published) = 1
                    /\ tasks[t].published_at >=
                           tasks[t].slept_from + monitoring_interval
        /\ (tasks[t].pc = "done" /\ tasks[t].msg.kind = "malformed") =>
              /\ tasks[t].settle = reject(FALSE)
              /\ \A i \in 1..Len(queue) : queue[i] # tasks[t].msg
        /\ (tasks[t].pc = "done" /\ ~Acked(t)) => tasks[t].settle = reject(FALSE)
        /\ Rejected(t) => ~Acked(t)
        /\ tasks[t].pc \notin {"idle", "done"} => tasks[t].settle = <<>>

\* C11 witness: of two handlers of one run, one was acknowledged after its
\* wait and its publish, the other rejected its message when its publish
\* raised and was not acknowledged.
C11_Witness ==
    \E t, u \in Tasks :
        /\ tasks[t].pc = "done" /\ tasks[u].pc = "done"
        /\ tasks[t].settle = <<"ack">>
        /\ tasks[t].final_result.decision = "extend"
        /\ Len(tasks[t].published) = 1
        /\ tasks[u].final_result.decision = "extend"
        /\ tasks[u].settle = <<"reject">>
        /\ tasks[u].published = <<>>

\* C11, the named failure: a body that is not JSON was rejected.
C11_WitnessMalformed ==
    \E t \in Tasks :
        /\ tasks[t].pc = "done"
        /\ tasks[t].msg.kind = "malformed"
        /\ tasks[t].settle = <<"reject">>
        /\ queue = <<>>

\* The store failed under the handler's second lookup or its outcome write.
StoreFailed(t) == tasks[t].final_result # NoResult /\ ~tasks[t].store_ok

\* C12: a handler that met a transient failure of the store settles its
\* message with a reject that requeues it (never with an acknowledgement or
\* a reject without requeue), and leaves no decision behind for that
\* attempt: no outcome record and no decision notification.
C12_TransientFailureRequeues ==
    \A t \in Tasks :
        StoreFailed(t) =>
            /\ tasks[t].wrote = 0
            /\ tasks[t].notification = NoResult
            /\ tasks[t].pc = "done" => tasks[t].settle = reject(TRUE)

\* C12 witness: the store failed under a handler that decided to ship, and
\* the handler ended.
C12_Witness ==
    \E t \in Tasks :
        /\ StoreFailed(t)
        /\ tasks[t].final_result.decision = "ship_treatment"
        /\ tasks[t].pc = "done"


\* The status of a stored experiment as the monitoring worker reads it: the
\* record's metadata is its spec (line 300), and a spec that carries no
\* status is at the default of the schema.
StatusOf(record) == DictGet(record.metadata, "status", "draft")

\* The decision a stored record carries; a spec record carries none.
DecisionOf(record) == DictGet(record.content, "outcome", "none")

\* C22: a decision is set only while the status is completed or stopped.
\* Whenever the store holds a decision for a key, it holds that key at
\* status completed or stopped.
C22_DecisionOnlyWhenClosed ==
    \A i \in 1..Len(store) :
        DecisionOf(store[i]) # "none" =>
            \E j \in 1..Len(store) :
                /\ store[j].metadata.experiment_key = store[i].metadata.experiment_key
                /\ StatusOf(store[j]) \in {"completed", "stopped"}

\* C22 witness: the handler recorded ship_treatment for a key whose spec is
\* stored, and every record of the key is still at status draft.
C22_Witness ==
    \E t \in Tasks :
        /\ tasks[t].pc = "done"
        /\ tasks[t].wrote # 0
        /\ HasSpec(store, KeyOf(t))
        /\ DecisionOf(store[tasks[t].wrote]) = "ship_treatment"
        /\ \A j \in 1..Len(store) :
              store[j].metadata.experiment_key = KeyOf(t) =>
                  StatusOf(store[j]) = "draft"

\* C23: the store is append-only.  Every step leaves each record already
\* stored where it was and as it was, for every key, and adds at most one
\* record at the end.
C23_AppendOnly ==
    [][/\ Len(store') >= Len(store)
       /\ Len(store') <= Len(store) + 1
       /\ \A i \in 1..Len(store) : store'[i] = store[i]]_vars

\* C23 witness: the spec of a key and two outcome records of that key,
\* written by two handlers, stand side by side.
C23_Witness ==
    /\ Len(store) = 3
    /\ \A i \in 1..3 : store[i].metadata.experiment_key = "exp_a"
    /\ ~store[1].metadata.outcome
    /\ store[2].metadata.outcome
    /\ store[3].metadata.outcome
    /\ store[2].content.outcome # store[3].content.outcome

----------------------------------------------------------------------------
(* The monitoring loop, checked under Spec *)

C29_LifecycleForward ==
    [][\A t \in Tasks :
          Len(tasks'[t].published) > Len(tasks[t].published) =>
              /\ HasSpec(store, tasks'[t].msg.experiment_key)
              /\ ~Decided(store, tasks'[t].msg.experiment_key)]_vars

\* C29 witness: a handler that was delivered an event of a key already
\* DECIDED has published a continuation for it.
C29_Witness ==
    \E t \in Tasks :
        /\ tasks[t].decided_at_delivery
        /\ HasSpec(store, KeyOf(t))
        /\ Len(tasks[t].published) = 1
        /\ tasks[t].published[1].experiment_key = KeyOf(t)

\* C29 witness without a spec: a continuation was published for a key that
\* never had a spec stored.
C29_WitnessNoSpec ==
    \E t \in Tasks :
        /\ ~HasSpec(store, KeyOf(t))
        /\ Len(tasks[t].published) = 1
----------------------------------------------------------------------------
(* Two keys monitored side by side *)

\* Events for two keys are queued and both specs are stored.
InitPair ==
    /\ queue = <<Message(1, "json", "exp_a"), Message(1, "json", "exp_b")>>
    /\ tasks = [t \in Tasks |-> IdleTask]
    /\ store = store_experiment(
                   store_experiment(<<>>, "exp_a", DefaultSpec("exp_a"),
                                    NoResult, 0, TRUE),
                   "exp_b", DefaultSpec("exp_b"), NoResult, 0, TRUE)
    /\ now = 0
    /\ deliveries = 0
    /\ call = Idle
    /\ status_log = {}

NextPair ==
    \E t \in Tasks :
        \/ Deliver(t)
        \/ Advise(t)
        \/ Notify(t)
        \/ Wake(t)
        \/ Publish(t)

SpecPair == InitPair /\ [][NextPair]_vars

\* What a handler holds at its position: its consumed message from delivery
\* until process() settles it (line 285), and the HTTP client of the Slack
\* call while that call runs (slack.py lines 30 and 64).  The code takes no
\* lock anywhere.
Holds(t) ==
    (IF tasks[t].pc \notin {"idle", "done"} /\ tasks[t].settle = <<>>
     THEN {"unsettled message"} ELSE {})
    \cup (IF tasks[t].pc = "notify" THEN {"open connection"} ELSE {})

\* The worker can start a handler on the head of the queue.
CanConsume ==
    /\ queue # <<>>
    /\ deliveries < MaxDeliveries
    /\ \E u \in Tasks : tasks[u].pc \in {"idle", "done"}

\* C28 as stated: while a handler sleeps the worker keeps consuming, and the
\* sleeping handler holds nothing, its message included.
C28_SleepHoldsNothing ==
    \A t \in Tasks :
        tasks[t].pc = "sleep" =>
            /\ CanConsume => \E u \in Tasks \ {t} : ENABLED Deliver(u)
            /\ Holds(t) = {}

\* C28: while a handler sleeps the worker keeps consuming events and the
\* handlers of other keys run to their end; the sleeping handler holds no
\* lock and no open connection, and it holds its consumed message, which
\* stays unsettled until the handler ends.
C28_SleepHoldsOnlyItsMessage ==
    \A t \in Tasks :
        tasks[t].pc = "sleep" =>
            /\ CanConsume => \E u \in Tasks \ {t} : ENABLED Deliver(u)
            /\ \A u \in Tasks \ {t} :
                  /\ tasks[u].pc = "advisory" => ENABLED Advise(u)
                  /\ tasks[u].pc = "notify" => ENABLED Notify(u)
            /\ Holds(t) = {"unsettled message"}

\* C28 witness: while the handler of one key sleeps, its message unsettled,
\* an event of the other key delivered after the sleep began has been
\* handled to its end and acknowledged, before the sleep is over.
C28_Witness ==
    \E t, u \in Tasks :
        /\ tasks[t].pc = "sleep"
        /\ tasks[t].settle = <<>>
        /\ tasks[u].pc = "done"
        /\ KeyOf(u) # KeyOf(t)
        /\ tasks[u].msg.kind = "json"
        /\ tasks[u].delivery_tag > tasks[t].delivery_tag
        /\ tasks[u].final_result.decision = "stop"
        /\ tasks[u].settle = <<"ack">>
        /\ now < tasks[t].wake_at

----------------------------------------------------------------------------
(* One monitored key whose stored spec departs from the defaults *)

\* Specs stored for exp_a: the floor below and above the 10000 samples of
\* the metrics source, with each metric type of the schema
StoredSpecs ==
    {ExperimentSpec("exp_a", <<"control", "treatment">>, 5, m, type) :
        m \in {DefaultMinSample, 20000}, type \in {"rate", "mean"}}

\* The spec of exp_a has been stored (worker_new line 132; call keeps the
\* spec that was handed to the store), alone or after the spec of exp_b,
\* and the first MonitorEvent of exp_a is queued.
InitGoverned ==
    /\ queue = <<Message(1, "json", "exp_a")>>
    /\ tasks = [t \in Tasks |-> IdleTask]
    /\ \E s \in StoredSpecs :
          /\ call = [stage |-> "stored", spec |-> s]
          /\ store \in
                {store_experiment(<<>>, "exp_a", s, NoResult, 0, TRUE),
                 store_experiment(
                     store_experiment(<<>>, "exp_b", DefaultSpec("exp_b"),
                                      NoResult, 0, TRUE),
                     "exp_a", s, NoResult, 0, TRUE)}
    /\ now = 0
    /\ deliveries = 0
    /\ status_log = {}

NextGoverned ==
    \/ Deliver("t1")
    \/ Advise("t1")
    \/ Notify("t1")
    \/ Wake("t1")
    \/ Publish("t1")

SpecGoverned == InitGoverned /\ [][NextGoverned]_vars

\* C32: the numeric result of a consumed MonitorEvent is the one
\* analyze_experiment gives on the spec stored for the event's key: with
\* that spec's min_sample_size at the gate and its metric type at dispatch.
C32_StoredSpecGoverns ==
    \A t \in Tasks :
        (tasks[t].analysis_result # NoResult /\ KeyOf(t) = call.spec.key) =>
            \E wins \in TaskWins :
                tasks[t].analysis_result =
                    analyze_experiment(
                        call.spec,
                        [ok |-> TRUE,
                         counts |-> get_metric_counts(KeyOf(t), DefaultDaysBack)],
                        wins)

\* C32 witness: the stored spec of the key asks for 20000 samples, the
\* source has 10000, and the event was decided by the rate test.
C32_Witness ==
    \E t \in Tasks :
        /\ KeyOf(t) = call.spec.key
        /\ call.spec.min_sample_size = 20000
        /\ HasSpec(store, KeyOf(t))
        /\ tasks[t].analysis_result # NoResult
        /\ tasks[t].analysis_result.sample_size = 10000
        /\ tasks[t].analysis_result.decision = "ship_treatment"
----------------------------------------------------------------------------
(* One handler at a time, with the admin endpoint and a wider set of
   advisory replies *)

\* Advisory replies of these runs: those of TaskReplies, a reply whose
\* DECISION word is none of the four decisions (the pattern of line 202
\* takes any word) and a reply with "CONFIDENCE: 95" (the pattern of line
\* 203 takes any number).
AdminReplies ==
    TaskReplies
    \cup {AiReply("text", "approve", "value", One),
          AiReply("text", "stop", "value", 95 * SIMS)}

\* Statuses sent to the admin endpoint
StatusValues == {"stopped"}

\* app.py update_experiment_status: the update is logged (and posted to
\* Slack); nothing is written to the store or the queue.  at is the number
\* of deliveries made when the update was logged.
update_experiment_status(experiment_key, status) ==
    /\ \A u \in status_log :
          ~(u.experiment_key = experiment_key /\ u.status = status)
    /\ status_log' = status_log \cup
          {[experiment_key |-> experiment_key, status |-> status,
            at |-> deliveries]}
    /\ UNCHANGED <<queue, tasks, store, now, deliveries, call>>

InitAdmin ==
    /\ queue = <<Message(1, "json", "exp_a")>>
    /\ tasks = [t \in Tasks |-> IdleTask]
    /\ store = store_experiment(<<>>, "exp_a", DefaultSpec("exp_a"), NoResult, 0, TRUE)
    /\ now = 0
    /\ deliveries = 0
    /\ call = Idle
    /\ status_log = {}

NextAdmin ==
    \/ \E k \in Keys, s \in StatusValues : update_experiment_status(k, s)
    \/ Deliver("t1")
    \/ AdviseWith("t1", AdminReplies)
    \/ Notify("t1")
    \/ Wake("t1")
    \/ Publish("t1")

SpecAdmin == InitAdmin /\ [][NextAdmin]_vars

\* A stopped update for the key has been logged.
MarkedStopped(experiment_key) ==
    \E u \in status_log :
        u.experiment_key = experiment_key /\ u.status = "stopped"

\* A stopped update for the task's key was logged before its delivery.
MarkedStoppedBefore(t) ==
    \E u \in status_log :
        /\ u.experiment_key = KeyOf(t)
        /\ u.status = "stopped"
        /\ u.at < tasks[t].delivery_tag

\* C13: continuation events for a key stop only after a terminal decision
\* or a stopped mark.  A handler that reached a decision for a key with a
\* spec, with the store and the broker taking every call, and has ended,
\* either decided ship_treatment, ship_control or stop, or published its
\* continuation, or the key was marked stopped.
C13_ContinuationUntilTerminal ==
    \A t \in Tasks :
        (/\ tasks[t].pc = "done"
         /\ HasDecision(t)
         /\ HasSpec(store, KeyOf(t))
         /\ tasks[t].store_ok
         /\ tasks[t].settle = <<"ack">>)
        => \/ tasks[t].final_result.decision \in Terminal
           \/ Len(tasks[t].published) = 1
           \/ MarkedStopped(KeyOf(t))

\* C13 witness: a handler ended on a decision that is neither extend nor
\* terminal; nothing is queued or running for the key, which no one stopped.
C13_Witness ==
    \E t \in Tasks :
        /\ tasks[t].pc = "done"
        /\ HasDecision(t)
        /\ tasks[t].final_result.decision \notin Terminal \cup {"extend"}
        /\ tasks[t].analysis_result.decision = "extend"
        /\ tasks[t].published = <<>>
        /\ queue = <<>>
        /\ ~MarkedStopped(KeyOf(t))

\* C14: an event delivered after its key was marked stopped is not acted
\* upon: no analysis, no outcome record, no notification, no continuation.
C14_StoppedSpecNotActedUpon ==
    \A t \in Tasks :
        (tasks[t].msg.kind = "json" /\ MarkedStoppedBefore(t)) =>
            /\ tasks[t].analysis_result = NoResult
            /\ tasks[t].final_result = NoResult
            /\ tasks[t].wrote = 0
            /\ tasks[t].notification = NoResult
            /\ tasks[t].published = <<>>

\* C14 witness: an event delivered after the stopped mark was analyzed,
\* recorded and continued.
C14_Witness ==
    \E t \in Tasks :
        /\ MarkedStoppedBefore(t)
        /\ tasks[t].analysis_result # NoResult
        /\ tasks[t].wrote # 0
        /\ Len(tasks[t].published) = 1


\* The decisions of ExperimentSpec.decision
DecisionValues == {"ship_treatment", "ship_control", "extend", "stop"}

\* The outcome records of the collection
OutcomeRecords == {i \in 1..Len(store) : store[i].metadata.outcome}

\* C25: every decision the handler persists or notifies is one of
\* ship_treatment, ship_control, extend, stop, whatever the advisory reply.
C25_DecisionIsOneOfFour ==
    /\ \A i \in OutcomeRecords : store[i].content.outcome \in DecisionValues
    /\ \A t \in Tasks :
          tasks[t].notification # NoResult
              => tasks[t].notification.decision \in DecisionValues

\* C25 witness: the word of an overriding reply that is none of the four
\* was persisted and notified as the decision.
C25_Witness ==
    \E t \in Tasks :
        /\ tasks[t].wrote # 0
        /\ store[tasks[t].wrote].content.outcome = "approve"
        /\ tasks[t].notification # NoResult
        /\ tasks[t].notification.decision = "approve"
        /\ tasks[t].notification.delivered

\* C26: every outcome record the handler persists has its confidence within
\* [0, 1] and a final sample size of at least 0, override or not.
C26_OutcomeWithinRanges ==
    \A i \in OutcomeRecords :
        /\ store[i].content.confidence >= 0
        /\ store[i].content.confidence <= One
        /\ store[i].content.final_sample_size >= 0

\* C26 witness: an override was persisted with the confidence 95 of its
\* reply.
C26_Witness ==
    \E t \in Tasks :
        /\ tasks[t].wrote # 0
        /\ DictGet(tasks[t].final_result, "ai_override", FALSE)
        /\ store[tasks[t].wrote].content.confidence = 95 * One
        /\ store[tasks[t].wrote].content.final_sample_size = 10000

\* C37: a failed outcome write is swallowed.  A handler whose store call
\* failed has written no record and goes on all the same: it sends the
\* notification, and on a decision other than extend it ends with the
\* decision notified, nothing published and its event acknowledged.
C37_WriteFailureSwallowed ==
    \A t \in Tasks :
        StoreFailed(t) =>
            /\ tasks[t].wrote = 0
            /\ tasks[t].pc \in {"notify", "sleep", "publish", "done"}
            /\ tasks[t].pc # "notify" =>
                  /\ tasks[t].notification # NoResult
                  /\ tasks[t].notification.decision = tasks[t].final_result.decision
            /\ (tasks[t].pc = "done" /\ ~IsExtend(tasks[t].final_result)) =>
                  /\ tasks[t].published = <<>>
                  /\ tasks[t].settle = <<"ack">>

\* C37 witness: a stop was notified and the monitoring of the key is over,
\* and the store holds no outcome record at all.
C37_Witness ==
    \E t \in Tasks :
        /\ StoreFailed(t)
        /\ tasks[t].pc = "done"
        /\ tasks[t].final_result.decision = "stop"
        /\ tasks[t].notification # NoResult
        /\ tasks[t].notification.delivered
        /\ tasks[t].settle = <<"ack">>
        /\ queue = <<>>
        /\ OutcomeRecords = {}
----------------------------------------------------------------------------
(* The experiment store under its two callers' writes and reads *)

\* Writes made at most in these runs
MaxRecords == 3

\* What the callers write: a spec (worker_new line 132) or an outcome
\* (worker_monitor line 244)
WriteInputs ==
    {NoResult}
    \cup {Outcome(d, One, 10000, Reason("AI override", <<>>), 0) :
            d \in {"ship_treatment", "extend"}}

InitStore ==
    /\ queue = <<>>
    /\ tasks = <<>>
    /\ store = <<>>
    /\ now = 0
    /\ deliveries = 0
    /\ call = Idle
    /\ status_log = {}

\* One store_experiment call; the clock has moved on by the next one.
StoreWrite ==
    /\ now < MaxRecords
    /\ \E k \in Keys, o \in WriteInputs, ok \in BOOLEAN :
          store' = store_experiment(store, k,
                                    IF o = NoResult THEN DefaultSpec(k) ELSE EmptyDict,
                                    o, now, ok)
    /\ now' = now + 1
    /\ UNCHANGED <<queue, tasks, deliveries, call, status_log>>

\* One retrieve_similar_experiments call with the key as query text, kept
\* with the collection it ran on.
StoreRead ==
    /\ \E k \in Keys, ok \in BOOLEAN,
          nearest \in 1..(IF store = <<>> THEN 1 ELSE Len(store)) :
          call' = [stage |-> "read", query |-> k, collection |-> store,
                   similar_experiments |->
                       retrieve_similar_experiments(store, nearest, ok)]
    /\ UNCHANGED <<queue, tasks, store, now, deliveries, status_log>>

NextStore == StoreWrite \/ StoreRead

SpecStore == InitStore /\ [][NextStore]_vars

\* The outcome records of a key, by position
OutcomesOf(collection, experiment_key) ==
    {i \in 1..Len(collection) :
        /\ collection[i].metadata.experiment_key = experiment_key
        /\ collection[i].metadata.outcome}

\* C24: latest wins.  A read for a key that has outcome records, when it
\* returns anything, returns first the outcome record of that key with the
\* greatest timestamp; and of two outcome records of one key the one
\* written later has the greater timestamp.
C24_LatestWins ==
    /\ \A k \in Keys : \A i, j \in OutcomesOf(store, k) :
          i < j => store[i].metadata.created_at < store[j].metadata.created_at
    /\ (/\ call.stage = "read"
        /\ OutcomesOf(call.collection, call.query) # {}
        /\ call.similar_experiments # <<>>)
       => LET first == call.similar_experiments[1]
          IN  /\ first.metadata.experiment_key = call.query
              /\ first.metadata.outcome
              /\ \A i \in OutcomesOf(call.collection, call.query) :
                    call.collection[i].metadata.created_at
                        <= first.metadata.created_at

\* C24 witness: the key has two outcome records and the read returned the
\* older one first.
C24_Witness ==
    /\ call.stage = "read"
    /\ Cardinality(OutcomesOf(call.collection, call.query)) = 2
    /\ call.similar_experiments # <<>>
    /\ call.similar_experiments[1].metadata.experiment_key = call.query
    /\ call.similar_experiments[1].metadata.outcome
    /\ \E i \in OutcomesOf(call.collection, call.query) :
          call.collection[i].metadata.created_at
              > call.similar_experiments[1].metadata.created_at

----------------------------------------------------------------------------
(* New-experiment worker *)

\* ExperimentSpec.model_validate on the parsed YAML (worker_new line 126):
\* the required fields are there and primary_metric.type is one of the two
\* literals.  The schema puts no condition on the number of variants or on
\* the value of mde.
model_validate(data) ==
    /\ {"key", "variants", "mde", "min_sample_size", "primary_metric"}
          \subseteq DOMAIN data
    /\ data.primary_metric.type \in {"rate", "mean"}

\* Specs a design conversation comes back with: the default spec of each
\* key, and for exp_a a spec with one variant, one with an MDE of 0, and one
\* with a metric type the schema does not know.
CandidateSpecs ==
    {DefaultSpec(k) : k \in Keys}
    \cup {ExperimentSpec("exp_a", <<"control">>, 5, DefaultMinSample, "rate"),
          ExperimentSpec("exp_a", <<"control", "treatment">>, 0, DefaultMinSample,
                         "rate"),
          ExperimentSpec("exp_a", <<"control", "treatment">>, 5, DefaultMinSample,
                         "revenue")}

\* What the design conversation of process_experiment_idea came to:
\* create_group_chat or a_initiate_chat raised ("raises"), the last message
\* has no experiment_spec.yaml block ("no_spec_yaml") or no
\* tracking_plan.json block ("no_tracking_json"), or both blocks are there
\* ("blocks"), with the spec the YAML block parses to.
ChatOutcomes ==
    {[outcome |-> o, spec |-> EmptyDict] :
        o \in {"raises", "no_spec_yaml", "no_tracking_json"}}
    \cup {[outcome |-> "blocks", spec |-> c] : c \in CandidateSpecs}

\* How the calls between the store write and the return end (lines
\* 135-165).  The flag and Slack clients report failures as values; the
\* GitHub client is called only when it has a repo, and its call returns a
\* URL, returns nothing, or raises.
GithubOutcomes == {"no_repo", "pr_url", "no_pr", "raises"}

\* The monitoring job of lines 191-194
monitor_payload(experiment_key) ==
    [experiment_key |-> experiment_key, status |-> "ready_to_monitor"]

\* The handler of exp.new between two messages
IdleNew ==
    [stage |-> "idle", kind |-> "none", records_at_delivery |-> 0,
     chat |-> "none", spec_key |-> "none",
     store_ok |-> TRUE, wrote |-> 0, alert |-> FALSE,
     published |-> <<>>, settle |-> <<>>]

InitNew ==
    /\ queue = <<>>
    /\ tasks = [t \in Tasks |-> IdleTask]
    /\ store = <<>>
    /\ now = 0
    /\ deliveries = 0
    /\ call = IdleNew
    /\ status_log = {}

\* The broker delivers a message of exp.new (lines 178-188): a body that is
\* not JSON raises and is rejected without requeue; otherwise
\* process_experiment_idea runs up to the design conversation.
DeliverNew ==
    /\ call.stage \in {"idle", "done"}
    /\ deliveries < MaxDeliveries
    /\ deliveries' = deliveries + 1
    /\ \E kind \in {"json", "malformed"} :
          call' = IF kind = "malformed"
                  THEN [IdleNew EXCEPT !.stage = "done", !.kind = kind,
                                       !.settle = process_exit(reject(FALSE))]
                  ELSE [IdleNew EXCEPT !.stage = "chat", !.kind = kind,
                                       !.records_at_delivery = Len(store)]
    /\ UNCHANGED <<queue, tasks, store, now, status_log>>

\* A flow that stores what the conversation produced before it looks at it.
ChatStoresFirst ==
    /\ call.stage = "chat"
    /\ \E reply \in ChatOutcomes, ok \in BOOLEAN :
          LET valid == reply.outcome = "blocks" /\ model_validate(reply.spec)
              key == IF reply.outcome = "blocks" THEN reply.spec.key ELSE "exp_a"
              written == store_experiment(store, key, reply.spec, NoResult, now, ok)
          IN  /\ store' = written
              /\ call' = [call EXCEPT
                            !.stage = IF valid THEN "effects" ELSE "alert",
                            !.chat = IF valid THEN "valid"
                                     ELSE IF reply.outcome = "blocks"
                                     THEN "invalid_spec" ELSE reply.outcome,
                            !.spec_key = IF valid THEN key ELSE "none",
                            !.store_ok = ok,
                            !.wrote = IF ok /\ valid THEN Len(written) ELSE 0]
    /\ UNCHANGED <<queue, tasks, now, deliveries, status_log>>

\* The conversation ends (lines 105-132): without both blocks, or with a
\* spec that does not validate, an error is raised; otherwise the spec is
\* stored under its key, and a failed write is only logged by the store.
Chat ==
    /\ call.stage = "chat"
    /\ \E reply \in ChatOutcomes, ok \in BOOLEAN :
          IF reply.outcome # "blocks"
          THEN /\ ok
               /\ call' = [call EXCEPT !.stage = "alert", !.chat = reply.outcome]
               /\ store' = store
          ELSE IF ~model_validate(reply.spec)
          THEN /\ ok
               /\ call' = [call EXCEPT !.stage = "alert", !.chat = "invalid_spec"]
               /\ store' = store
          ELSE LET written == store_experiment(store, reply.spec.key, reply.spec,
                                                NoResult, now, ok)
               IN  /\ store' = written
                   /\ call' = [call EXCEPT !.stage = "effects",
                                 !.chat = "valid",
                                 !.spec_key = reply.spec.key, !.store_ok = ok,
                                 !.wrote = IF ok THEN Len(written) ELSE 0]
    /\ UNCHANGED <<queue, tasks, now, deliveries, status_log>>

\* Flag, pull request and Slack update (lines 135-165): the result is
\* returned and the publish of the monitoring job is started, or the GitHub
\* call raised.
Effects ==
    /\ call.stage = "effects"
    /\ \E github \in GithubOutcomes :
          call' = [call EXCEPT !.stage = IF github = "raises" THEN "alert"
                                         ELSE "publish"]
    /\ UNCHANGED <<queue, tasks, store, now, deliveries, status_log>>

\* The except branch of process_experiment_idea (lines 167-174) posts the
\* error alert and raises again; on_new_experiment rejects the message
\* without requeue (lines 203-206).
Alert ==
    /\ call.stage = "alert"
    /\ call' = [call EXCEPT !.stage = "done", !.alert = TRUE,
                            !.settle = process_exit(reject(FALSE))]
    /\ UNCHANGED <<queue, tasks, store, now, deliveries, status_log>>

\* The publish to exp.monitor ends (lines 196-201): the first MonitorEvent
\* of the key is queued and the handler leaves, which acknowledges; or the
\* publish raised and the message is rejected.
PublishNew ==
    /\ call.stage = "publish"
    /\ \E ok \in BOOLEAN :
          IF ok
          THEN LET m == Message(1, "json", monitor_payload(call.spec_key).experiment_key)
               IN  /\ queue' = Append(queue, m)
                   /\ call' = [call EXCEPT !.stage = "done",
                                 !.published = Append(@, m),
                                 !.settle = process_exit(<<>>)]
          ELSE /\ queue' = queue
               /\ call' = [call EXCEPT !.stage = "done",
                             !.settle = process_exit(reject(FALSE))]
    /\ UNCHANGED <<tasks, store, now, deliveries, status_log>>

NextNew == DeliverNew \/ Chat \/ Effects \/ Alert \/ PublishNew

SpecNew == InitNew /\ [][NextNew]_vars

\* C30: the new-experiment flow.  A message of exp.new that was processed
\* with success (acknowledged) has stored its validated spec and published
\* exactly one MonitorEvent, with that spec's key; and every MonitorEvent
\* the flow has published is for a key whose spec is in the store.
C30_NewExperimentFlow ==
    /\ (call.stage = "done" /\ call.settle = <<"ack">>) =>
          /\ call.spec_key \in Keys
          /\ call.wrote # 0
          /\ store[call.wrote].metadata.experiment_key = call.spec_key
          /\ ~store[call.wrote].metadata.outcome
          /\ call.published = <<Message(1, "json", call.spec_key)>>
    /\ call.stage # "done" => call.published = <<>>
    /\ \A i \in 1..Len(queue) : HasSpec(store, queue[i].experiment_key)

\* C30 witness: a message was processed to its end and acknowledged, its
\* MonitorEvent is queued, and no spec of the key is in the store.
C30_Witness ==
    /\ call.stage = "done"
    /\ call.settle = <<"ack">>
    /\ ~call.store_ok
    /\ call.published = <<Message(1, "json", call.spec_key)>>
    /\ queue # <<>>
    /\ ~HasSpec(store, call.spec_key)

----------------------------------------------------------------------------
(* The metrics source over a series of ticks *)

\* Ticks looked at in one run
MaxTicks == 3

\* Lookbacks the source is asked for
DaysBackInputs == {1, DefaultDaysBack, 30}

InitCounts ==
    /\ queue = <<>>
    /\ tasks = <<>>
    /\ store = <<>>
    /\ now = 0
    /\ deliveries = 0
    /\ call = [stage |-> "fetching", snapshots |-> <<>>]
    /\ status_log = {}

\* One tick fetches the counts of its key (worker_monitor line 84).
Fetch ==
    /\ Len(call.snapshots) < MaxTicks
    /\ \E k \in Keys, days_back \in DaysBackInputs :
          call' = [call EXCEPT !.snapshots =
                      Append(@, [experiment_key |-> k, days_back |-> days_back,
                                 counts |-> get_metric_counts(k, days_back)])]
    /\ UNCHANGED <<queue, tasks, store, now, deliveries, status_log>>

NextCounts == Fetch

SpecCounts == InitCounts /\ [][NextCounts]_vars

\* C31: the reference metrics source returns (480, 5000, 520, 5000) for
\* every key and every lookback, so all ticks, of whatever experiment, see
\* the same snapshot.
C31_SameCountsEveryTick ==
    \A i, j \in 1..Len(call.snapshots) :
        /\ call.snapshots[i].counts = <<480, 5000, 520, 5000>>
        /\ call.snapshots[i].counts = call.snapshots[j].counts

\* C31 witness: three ticks of two experiments with three lookbacks.
C31_Witness ==
    /\ Len(call.snapshots) = 3
    /\ call.snapshots[1].experiment_key # call.snapshots[2].experiment_key
    /\ call.snapshots[1].days_back # call.snapshots[2].days_back
    /\ call.snapshots[2].days_back # call.snapshots[3].days_back
    /\ call.snapshots[1].days_back # call.snapshots[3].days_back
    /\ call.snapshots[1].counts = call.snapshots[3].counts


\* The conversation gave no spec block, no tracking plan block, or a spec
\* that does not validate.
IdeaFailed ==
    call.chat \in {"no_spec_yaml", "no_tracking_json", "invalid_spec"}

\* C34: when processing of an idea fails for want of a spec block, of a
\* tracking plan block or of a valid spec, the handler stores nothing and
\* publishes no MonitorEvent, and it ends with the error alert sent and the
\* exp.new message rejected without requeue.
C34_FailedIdeaLeavesNothing ==
    IdeaFailed =>
        /\ call.stage \in {"alert", "done"}
        /\ call.wrote = 0
        /\ Len(store) = call.records_at_delivery
        /\ call.published = <<>>
        /\ call.stage = "done" =>
              /\ call.alert
              /\ call.settle = reject(FALSE)

\* C34 witness: after one idea was stored and its MonitorEvent queued, a
\* second idea failed validation and was rejected, leaving store and queue
\* as they were.
C34_Witness ==
    /\ call.chat = "invalid_spec"
    /\ call.stage = "done"
    /\ call.alert
    /\ call.settle = <<"reject">>
    /\ Len(store) = 1
    /\ Len(queue) = 1

----------------------------------------------------------------------------
(* The monitoring worker dying and restarting *)

\* The worker process dies while handlers are running: the broker puts the
\* messages they had not settled back at the head of exp.monitor, and the
\* handlers are gone with the process.
Crash ==
    /\ \E t \in Tasks : tasks[t].pc \notin {"idle", "done"}
    /\ LET lost == {t \in Tasks : tasks[t].pc \notin {"idle", "done"}}
           back(t) == IF t \in lost /\ tasks[t].settle = <<>>
                      THEN <<tasks[t].msg>> ELSE <<>>
       IN  /\ queue' = back("t1") \o back("t2") \o queue
           /\ tasks' = [t \in Tasks |-> IF t \in lost THEN IdleTask ELSE tasks[t]]
    /\ UNCHANGED <<store, now, deliveries, call, status_log>>

NextCrash ==
    \/ Deliver("t1")
    \/ Advise("t1")
    \/ Notify("t1")
    \/ Wake("t1")
    \/ Publish("t1")
    \/ Crash

SpecCrash == InitAdmin /\ [][NextCrash]_vars

\* The monitoring of the key came to an end in a handler: a decision other
\* than extend, an event dropped for an empty lookup, or a failed handler
\* that rejected its event.
EndedInHandler ==
    \E t \in Tasks :
        /\ tasks[t].pc = "done"
        /\ \/ ~HasDecision(t)
           \/ ~IsExtend(tasks[t].final_result)
           \/ Rejected(t)

\* C35: a continuation is not lost when the worker dies.  The consumed
\* event stays unsettled through the wait and until the publish is over,
\* and at any time, crashes included, the key's MonitorEvent or its
\* continuation is in the queue or in the hands of a running handler,
\* unless a handler put an end to the monitoring.
C35_ContinuationSurvivesCrash ==
    /\ \A t \in Tasks :
          tasks[t].pc \in {"sleep", "publish"} => tasks[t].settle = <<>>
    /\ \/ queue # <<>>
       \/ \E t \in Tasks : tasks[t].pc \notin {"idle", "done"}
       \/ EndedInHandler

\* C35 witness: the worker died on the extend path, after the extend was
\* recorded; the handler is gone and the event it held is back in the queue.
C35_Witness ==
    /\ \A t \in Tasks : tasks[t].pc = "idle"
    /\ deliveries = 1
    /\ Len(store) = 2
    /\ store[2].content.outcome = "extend"
    /\ queue = <<Message(1, "json", "exp_a")>>

\* The spec records of the collection
SpecRecords == {i \in 1..Len(store) : ~store[i].metadata.outcome}

\* C38: every spec that reaches the store has at least two variants and a
\* minimum detectable effect greater than 0, and no MonitorEvent is queued
\* for a key without such a spec.
C38_StoredSpecsWellFormed ==
    /\ \A i \in SpecRecords :
          /\ Len(store[i].content.variants) >= 2
          /\ store[i].content.mde > 0
    /\ \A j \in 1..Len(queue) :
          \A i \in SpecRecords :
              store[i].metadata.experiment_key = queue[j].experiment_key =>
                  /\ Len(store[i].content.variants) >= 2
                  /\ store[i].content.mde > 0

\* C38 witness: a spec with an MDE of 0 passed validation, is in the store,
\* and its MonitorEvent is queued.
C38_Witness ==
    /\ call.stage = "done"
    /\ call.chat = "valid"
    /\ call.settle = <<"ack">>
    /\ call.wrote # 0
    /\ store[call.wrote].content.mde = 0
    /\ queue # <<>>
    /\ queue[Len(queue)].experiment_key = store[call.wrote].metadata.experiment_key

\* C38, the other condition: a spec with a single variant is in the store.
C38_WitnessOneVariant ==
    \E i \in SpecRecords : Len(store[i].content.variants) = 1
----------------------------------------------------------------------------
(* Both workers on one broker: exp.new feeds exp.monitor *)

InitPipeline ==
    /\ queue = <<>>
    /\ tasks = [t \in Tasks |-> IdleTask]
    /\ store = <<>>
    /\ now = 0
    /\ deliveries = 0
    /\ call = IdleNew
    /\ status_log = {}

NextPipeline ==
    \/ NextNew
    \/ Deliver("t1")
    \/ Advise("t1")
    \/ Notify("t1")
    \/ Wake("t1")
    \/ Publish("t1")

SpecPipeline == InitPipeline /\ [][NextPipeline]_vars

\* C33: every consumed message is settled exactly once.  A handler of
\* either worker that has ended has sent the broker one settlement of its
\* message, an acknowledgement or a reject, and nothing else; this holds on
\* the paths where the error branch rejected inside the processing context.
C33_SettledExactlyOnce ==
    /\ \A t \in Tasks :
          tasks[t].pc = "done" => tasks[t].settle \in {<<"ack">>, reject(FALSE)}
    /\ call.stage = "done" => call.settle \in {<<"ack">>, reject(FALSE)}

\* C33 witness: the exp.new handler ended acknowledged, and the monitoring
\* handler of the event it published rejected that event in its error
\* branch, when the continuation publish raised.
C33_Witness ==
    /\ call.stage = "done"
    /\ call.settle = <<"ack">>
    /\ \E t \in Tasks :
          /\ tasks[t].pc = "done"
          /\ tasks[t].msg = call.published[1]
          /\ tasks[t].final_result.decision = "extend"
          /\ tasks[t].published = <<>>
          /\ tasks[t].settle = <<"reject">>

\* C33, the error branch of the exp.new handler: processing raised after
\* the alert and the message was rejected once.
C33_WitnessNew ==
    /\ call.stage = "done"
    /\ call.alert
    /\ call.settle = <<"reject">>

----------------------------------------------------------------------------
(* Slack client *)

\* How a POST to Slack can end: a good answer; for the bot API an answer
\* whose body says ok: false ("api_error"); a status raise_for_status
\* rejects; an error of the connection; a body that is not JSON.
BotResponses == {"ok", "api_error", "http_error", "network_error", "bad_json"}

WebhookResponses == {"ok", "http_error", "network_error"}

\* SlackClient._send_bot_message (slack.py lines 41-77): nothing is posted
\* without a token or a channel; otherwise one POST, which counts as sent
\* only on a good answer; whatever is raised is caught.
send_bot_message(bot_token, target_channel, response) ==
    IF ~bot_token THEN [posts |-> <<>>, value |-> FALSE]
    ELSE IF target_channel = "none" THEN [posts |-> <<>>, value |-> FALSE]
    ELSE [posts |-> <<"bot">>, value |-> (response = "ok")]

\* SlackClient._send_webhook_message (lines 19-39)
send_webhook_message(webhook_url, response) ==
    IF ~webhook_url THEN [posts |-> <<>>, value |-> FALSE]
    ELSE [posts |-> <<"webhook">>, value |-> (response = "ok")]

\* A client that posts to the webhook first and to the bot API after it.
SendMessageWebhookFirst(config, channel, bot_response, webhook_response) ==
    LET target_channel == IF channel # "none" THEN channel
                          ELSE config.channel_approvals
        webhook == send_webhook_message(config.webhook_url, webhook_response)
        bot == send_bot_message(config.bot_token, target_channel, bot_response)
    IN  IF webhook.value
        THEN [posts |-> webhook.posts, value |-> TRUE]
        ELSE [posts |-> webhook.posts \o bot.posts, value |-> bot.value]

\* SlackClient.send_message (lines 79-85); posts are the POSTs made, in
\* order.
send_message(config, channel, bot_response, webhook_response) ==
    LET target_channel == IF channel # "none" THEN channel
                          ELSE config.channel_approvals
        bot == send_bot_message(config.bot_token, target_channel, bot_response)
        webhook == send_webhook_message(config.webhook_url, webhook_response)
    IN  IF bot.value
        THEN [posts |-> bot.posts, value |-> TRUE]
        ELSE [posts |-> bot.posts \o webhook.posts, value |-> webhook.value]

\* The client's configuration, read from the environment (lines 11-14)
SlackConfigs ==
    [bot_token : BOOLEAN, channel_approvals : {"none", "C_approvals"},
     webhook_url : BOOLEAN]

InitSlack ==
    /\ queue = <<>>
    /\ tasks = <<>>
    /\ store = <<>>
    /\ now = 0
    /\ deliveries = 0
    /\ \E config \in SlackConfigs, channel \in {"none", "C_other"},
          b \in BotResponses, w \in WebhookResponses :
          call = [stage |-> "input", config |-> config, channel |-> channel,
                  bot_response |-> b, webhook_response |-> w,
                  sent |-> [posts |-> <<>>, value |-> FALSE]]
    /\ status_log = {}

Send ==
    /\ call.stage = "input"
    /\ call' = [call EXCEPT !.stage = "sent",
                  !.sent = send_message(call.config, call.channel,
                                        call.bot_response, call.webhook_response)]
    /\ UNCHANGED <<queue, tasks, store, now, deliveries, status_log>>

NextSlack == Send

SpecSlack == InitSlack /\ [][NextSlack]_vars

\* The bot send of the call succeeded: token and channel are there and the
\* API answered ok.
BotSucceeded ==
    /\ call.config.bot_token
    /\ (call.channel # "none" \/ call.config.channel_approvals # "none")
    /\ call.bot_response = "ok"

\* The webhook send of the call took place and succeeded.
WebhookSucceeded ==
    /\ \E i \in 1..Len(call.sent.posts) : call.sent.posts[i] = "webhook"
    /\ call.webhook_response = "ok"

\* C39: send_message tries the bot channel first and the webhook only when
\* the bot send did not succeed; it returns true exactly when one of the
\* two sends succeeded, and always returns a boolean, whatever the POSTs
\* raised.
C39_BotFirstThenWebhook ==
    call.stage = "sent" =>
        /\ call.sent.value \in BOOLEAN
        /\ call.sent.value <=> (BotSucceeded \/ WebhookSucceeded)
        /\ call.sent.posts \in {<<>>, <<"bot">>, <<"webhook">>, <<"bot", "webhook">>}
        /\ BotSucceeded => call.sent.posts = <<"bot">>
        /\ (~BotSucceeded /\ call.config.webhook_url) =>
              call.sent.posts[Len(call.sent.posts)] = "webhook"

\* C39 witness: the bot POST ended in a connection error, the webhook was
\* posted after it and succeeded, and the call returned true.
C39_Witness ==
    /\ call.stage = "sent"
    /\ call.bot_response = "network_error"
    /\ call.sent.posts = <<"bot", "webhook">>
    /\ call.webhook_response = "ok"
    /\ call.sent.value
----------------------------------------------------------------------------
(* Properties of the decision engine, checked under SpecEngine *)

Analyzed == call.stage \in {"analyzed", "reviewed"}

Reviewed == call.stage = "reviewed"

TotalSample(fetched) == fetched.counts[2] + fetched.counts[4]

\* The evaluation passed the sample gate and took the rate branch.
RateCase ==
    /\ Analyzed
    /\ call.fetched.ok
    /\ TotalSample(call.fetched) >= DictGet(call.spec, "min_sample_size", DefaultMinSample)
    /\ DictGet(DictGet(call.spec, "primary_metric", <<>>), "type", "rate") = "rate"

\* C1: gate precedence.  For a spec with min_sample_size = M and a snapshot
\* whose control total + treatment total is below M, analyze returns extend
\* with confidence 0.5 and the insufficient-sample reason naming both
\* numbers, for every metric type and every rates; no test has run (the
\* result carries no prob_treatment_better).
C1_GatePrecedence ==
    (/\ Analyzed
     /\ call.fetched.ok
     /\ "min_sample_size" \in DOMAIN call.spec
     /\ TotalSample(call.fetched) < call.spec.min_sample_size)
    => /\ call.analysis.decision = "extend"
       /\ call.analysis.confidence = Half
       /\ call.analysis.sample_size = TotalSample(call.fetched)
       /\ call.analysis.reason =
             Reason("Insufficient sample size",
                    <<TotalSample(call.fetched), call.spec.min_sample_size>>)
       /\ "prob_treatment_better" \notin DOMAIN call.analysis

\* C1 witness: a gated snapshot with the most extreme rates (0% against 100%)
\* of a rate metric, on which the Monte-Carlo outcome would have shipped.
C1_Witness ==
    /\ Analyzed
    /\ call.fetched = [ok |-> TRUE, counts |-> <<0, 50, 50, 50>>]
    /\ call.spec = [min_sample_size |-> 2000, primary_metric |-> [type |-> "rate"]]
    /\ call.wins = SIMS
    /\ call.analysis.decision = "extend"

\* C2: the rate decision rule.  With P the probability that treatment beats
\* control: P >= 0.95 gives ship_treatment with confidence P, P <= 0.05 gives
\* ship_control with confidence 1 - P, any other P gives extend with
\* confidence 0.5; exactly one of the three cases applies.
C2_RateDecisionRule ==
    RateCase =>
        LET P == call.analysis.prob_treatment_better
            r == call.analysis
            treatment == r.decision = "ship_treatment" /\ r.confidence = P
            control == r.decision = "ship_control" /\ r.confidence = One - P
            extend == r.decision = "extend" /\ r.confidence = Half
        IN  /\ P = bayes_prob_better(call.fetched.counts[1], call.fetched.counts[2],
                                     call.fetched.counts[3], call.fetched.counts[4],
                                     call.wins)
            /\ (P >= ShipTreatmentAt) <=> treatment
            /\ (P <= ShipControlAt) <=> control
            /\ (P > ShipControlAt /\ P < ShipTreatmentAt) <=> extend
            /\ Cardinality({b \in {"t", "c", "e"} :
                    \/ b = "t" /\ treatment
                    \/ b = "c" /\ control
                    \/ b = "e" /\ extend}) = 1

\* C2 witness: P exactly 0.95 ships the treatment.
C2_Witness ==
    /\ RateCase
    /\ call.analysis.prob_treatment_better = ShipTreatmentAt
    /\ call.analysis.decision = "ship_treatment"

\* C2 witness of the other boundary: P exactly 0.05 ships the control.
C2_WitnessControl ==
    /\ RateCase
    /\ call.analysis.prob_treatment_better = ShipControlAt
    /\ call.analysis.decision = "ship_control"
    /\ call.analysis.confidence = ShipTreatmentAt

\* The reply reports a confidence, and it is strictly above the numeric one.
ReportsHigherConfidence ==
    /\ call.ai.outcome = "text"
    /\ call.ai.confidence.kind = "value"
    /\ call.ai.confidence.value > call.analysis.confidence

\* C8: the advisory reviewer changes the result only when it reports a
\* confidence strictly higher than the numeric confidence; in every other
\* case the effective result is exactly the numeric result.
C8_OverrideOnlyOnHigherReportedConfidence ==
    Reviewed => (call.final # call.analysis => ReportsHigherConfidence)

\* C8, the part the code keeps: a reply that does report a confidence
\* overrides only when that confidence is strictly higher, and no reply
\* without a DECISION token overrides.
C8_ReportedConfidenceNotHigherKeepsNumeric ==
    (/\ Reviewed
     /\ \/ call.ai.decision = "none"
        \/ /\ call.ai.confidence.kind = "value"
           /\ call.ai.confidence.value <= call.analysis.confidence)
    => call.final = call.analysis

\* C8 witness: a reply with DECISION and no CONFIDENCE token at all replaced
\* a numeric extend.
C8_Witness ==
    /\ Reviewed
    /\ call.ai.outcome = "text"
    /\ call.ai.confidence.kind = "absent"
    /\ call.analysis.decision = "extend"
    /\ call.final.decision = "ship_treatment"
    /\ call.final.confidence = DefaultAiConfidence

\* The advisory path failed: no chat, no reply, a reply that is not a text or
\* has no DECISION token, or a confidence that cannot be parsed as a number.
AdvisoryFailed ==
    \/ call.ai.outcome \in {"create_error", "call_error", "not_text"}
    \/ call.ai.decision = "none"
    \/ call.ai.confidence.kind \in {"nonnumeric", "malformed"}

\* C9: any failure of the advisory path leaves the numeric result unchanged.
C9_AdvisoryFailureKeepsNumeric ==
    (Reviewed /\ AdvisoryFailed) => call.final = call.analysis

\* C9, the failures the code does turn into the numeric result: an error
\* raised anywhere on the path (creating the chat, the call, a reply that is
\* not a text, float() rejecting the confidence) and a missing DECISION.
C9_RaisedFailureKeepsNumeric ==
    (/\ Reviewed
     /\ \/ call.ai.outcome \in {"create_error", "call_error", "not_text"}
        \/ call.ai.decision = "none"
        \/ call.ai.confidence.kind = "malformed")
    => call.final = call.analysis

\* C9 witness: "CONFIDENCE: high" next to a DECISION replaced a numeric
\* extend.
C9_Witness ==
    /\ Reviewed
    /\ call.ai.outcome = "text"
    /\ call.ai.confidence.kind = "nonnumeric"
    /\ call.analysis.decision = "extend"
    /\ call.final # call.analysis


\* The evaluation passed the sample gate and took the mean branch.
MeanCase ==
    /\ Analyzed
    /\ call.fetched.ok
    /\ TotalSample(call.fetched) >= DictGet(call.spec, "min_sample_size", DefaultMinSample)
    /\ DictGet(DictGet(call.spec, "primary_metric", <<>>), "type", "rate") = "mean"

\* C15: the mean branch keeps the 10-observation floor of the sequential
\* test.  A mean-metric input past the gate with fewer than 10 observations
\* in either variant yields extend with reason "insufficient_data".
C15_MeanFloor ==
    (MeanCase /\ (call.fetched.counts[2] < 10 \/ call.fetched.counts[4] < 10)) =>
        /\ call.analysis.decision = "extend"
        /\ call.analysis.reason = Reason("insufficient_data", <<>>)

\* C15 witness: a mean-metric input with 5 observations in the treatment
\* variant came back as ship_treatment.
C15_Witness ==
    /\ MeanCase
    /\ call.fetched.counts[4] < 10
    /\ call.analysis.decision = "ship_treatment"
    /\ call.analysis.confidence = NineTenths


\* The evaluation passed the sample gate with a metric type that is neither
\* rate nor mean.
UnknownTypeCase ==
    /\ Analyzed
    /\ call.fetched.ok
    /\ TotalSample(call.fetched) >= DictGet(call.spec, "min_sample_size", DefaultMinSample)
    /\ DictGet(DictGet(call.spec, "primary_metric", <<>>), "type", "rate")
           \notin {"rate", "mean"}

\* C17: for a metric type that is neither rate nor mean and a sample past
\* the gate, analyze returns a result (it does not raise): extend with
\* confidence 0.5, the whole sample size, and the reason naming the type;
\* no test has run and the decision is never terminal.
C17_UnknownTypeExtends ==
    UnknownTypeCase =>
        /\ call.analysis.decision = "extend"
        /\ call.analysis.decision \notin Terminal
        /\ call.analysis.confidence = Half
        /\ call.analysis.sample_size = TotalSample(call.fetched)
        /\ call.analysis.reason =
               Reason("Unknown metric type", <<call.spec.primary_metric.type>>)
        /\ "prob_treatment_better" \notin DOMAIN call.analysis

\* C17 witness: type "revenue" with every control observation a success and
\* no treatment success, drawn with all Monte-Carlo wins, came back extend.
C17_Witness ==
    /\ UnknownTypeCase
    /\ call.spec.primary_metric.type = "revenue"
    /\ call.fetched.counts = <<1000, 1000, 0, 1000>>
    /\ call.wins = SIMS
    /\ call.analysis.decision = "extend"


\* Some arm of the snapshot has more successes than observations.
Degenerate(counts) == counts[1] > counts[2] \/ counts[3] > counts[4]

\* C18: a failure inside the Bayesian computation stays inside it.  On a
\* rate-metric snapshot past the gate with successes greater than total in
\* an arm, whatever the sampler would have drawn, bayes_prob_better returns
\* exactly 0.5 and analyze returns extend with confidence 0.5, the
\* inconclusive reason and the whole sample size.
C18_BayesFailureIsNeutral ==
    (RateCase /\ Degenerate(call.fetched.counts)) =>
        /\ call.analysis.prob_treatment_better = Half
        /\ call.analysis.decision = "extend"
        /\ call.analysis.confidence = Half
        /\ call.analysis.reason = Reason("Inconclusive results", <<>>)
        /\ call.analysis.sample_size = TotalSample(call.fetched)

\* C18 witness: 60 successes of 50 in the control arm, with a draw that
\* would otherwise ship the treatment.
C18_Witness ==
    /\ RateCase
    /\ call.fetched.counts = <<60, 50, 10, 50>>
    /\ call.wins = SIMS
    /\ call.analysis.decision = "extend"
    /\ call.analysis.prob_treatment_better = Half

\* C19: for counts with 0 <= s <= n in both arms, the value
\* bayes_prob_better returns lies in [0, 1].
C19_ProbabilityInUnitInterval ==
    (/\ RateCase
     /\ 0 <= call.fetched.counts[1] /\ call.fetched.counts[1] <= call.fetched.counts[2]
     /\ 0 <= call.fetched.counts[3] /\ call.fetched.counts[3] <= call.fetched.counts[4])
    => /\ 0 <= call.analysis.prob_treatment_better
       /\ call.analysis.prob_treatment_better <= One

\* C19 witness: the counts of the test, 480 of 5000 against 520 of 5000,
\* with every draw won by the treatment: the value is 1.
C19_Witness ==
    /\ RateCase
    /\ call.fetched.counts = <<480, 5000, 520, 5000>>
    /\ call.wins = SIMS
    /\ call.analysis.prob_treatment_better = One


\* C21: end-to-end scenario 1.  With min_sample_size = 2000 and the rate
\* counts (480, 5000, 520, 5000) the gate passes and the Bayesian test
\* yields ship_treatment with prob_treatment_better >= 0.95.
C21_ScenarioShipsTreatment ==
    (/\ Analyzed
     /\ call.fetched.ok
     /\ call.fetched.counts = get_metric_counts("exp_a", DefaultDaysBack)
     /\ DictGet(call.spec, "min_sample_size", 0) = 2000
     /\ DictGet(DictGet(call.spec, "primary_metric", <<>>), "type", "rate") = "rate")
    => /\ call.analysis.reason.text # "Insufficient sample size"
       /\ call.analysis.decision = "ship_treatment"
       /\ call.analysis.prob_treatment_better >= ShipTreatmentAt


\* C21 witness: the scenario with the estimate at 0.909 came back extend.
C21_Witness ==
    /\ Analyzed
    /\ call.fetched.ok
    /\ call.fetched.counts = <<480, 5000, 520, 5000>>
    /\ DictGet(call.spec, "min_sample_size", 0) = 2000
    /\ DictGet(DictGet(call.spec, "primary_metric", <<>>), "type", "rate") = "rate"
    /\ call.wins = 18180
    /\ call.analysis.decision = "extend"
    /\ call.analysis.prob_treatment_better = 18180

----------------------------------------------------------------------------
(* The sequential test for mean metrics, on drawn series *)

RECURSIVE SumOf(_)
SumOf(data) == IF data = <<>> THEN 0 ELSE Head(data) + SumOf(Tail(data))

RECURSIVE SumOfSquares(_)
SumOfSquares(data) ==
    IF data = <<>> THEN 0 ELSE Head(data) * Head(data) + SumOfSquares(Tail(data))

\* len(data)^2 * np.std(data)^2, the population variance of line 57-58
\* cleared of its denominator: n * sum(x^2) - sum(x)^2.
ScaledVariance(data) ==
    Len(data) * SumOfSquares(data) - SumOf(data) * SumOf(data)

\* A critical value that follows alpha: 2.6 at alpha = 0.01.
critical_value_of_alpha(alpha) == IF alpha = 10 THEN <<13, 5>> ELSE <<49, 25>>

\* line 67: critical_value = 1.96, as the fraction 49/25, whatever alpha
\* (in thousandths) is.
critical_value(alpha) == <<49, 25>>

\* MonitoringWorker.msprt_test in exact arithmetic.  With n_c, n_t the
\* lengths, diff is (treatment_mean - control_mean) * n_c * n_t and pooled
\* is pooled_se^2 * n_c^3 * n_t^3, so that
\*     effect_size = diff / sqrt(n_c * n_t * pooled)   (times n_c * n_t).
\* A zero pooled_se makes effect_size +inf, -inf or nan in the code's
\* floating point (no exception): inf compares above the critical value,
\* nan compares false both ways.
msprt_test(control_data, treatment_data, alpha) ==
    IF Len(control_data) < 10 \/ Len(treatment_data) < 10
    THEN [decision |-> "extend", confidence |-> Half,
          reason |-> Reason("insufficient_data", <<>>)]
    ELSE LET n_c == Len(control_data)
             n_t == Len(treatment_data)
             diff == SumOf(treatment_data) * n_c - SumOf(control_data) * n_t
             pooled == ScaledVariance(control_data) * n_t * n_t * n_t
                         + ScaledVariance(treatment_data) * n_c * n_c * n_c
             cv == critical_value(alpha)
             beyond == IF pooled = 0
                       THEN diff # 0
                       ELSE cv[2] * cv[2] * n_c * n_t * diff * diff
                                > cv[1] * cv[1] * pooled
         IN  IF diff > 0 /\ beyond
             THEN [decision |-> "ship_treatment", confidence |-> ShipTreatmentAt,
                   reason |-> Reason("significant_positive", <<>>)]
             ELSE IF diff < 0 /\ beyond
             THEN [decision |-> "ship_control", confidence |-> ShipTreatmentAt,
                   reason |-> Reason("significant_negative", <<>>)]
             ELSE [decision |-> "extend", confidence |-> Half,
                   reason |-> Reason("no_significant_difference", <<>>)]

\* A series of n observations, the first k equal to 1 and the rest to 0
Ones(k, n) == [i \in 1..n |-> IF i <= k THEN 1 ELSE 0]

SeriesLengths == {9, 10, 11}

SeriesInputs ==
    {Ones(k, n) : k \in {0, 2, 5, 6, 7}, n \in SeriesLengths}
    \cup {Ones(n, n) : n \in SeriesLengths}

\* alpha in thousandths: the default 0.05, and 0.01
AlphaInputs == {50, 10}

InitMsprt ==
    /\ queue = <<>>
    /\ tasks = <<>>
    /\ store = <<>>
    /\ now = 0
    /\ deliveries = 0
    /\ status_log = {}
    /\ \E c \in SeriesInputs, t \in SeriesInputs, a \in AlphaInputs :
          call = [stage |-> "input", control_data |-> c, treatment_data |-> t,
                  alpha |-> a, result |-> NoResult]

RunMsprt ==
    /\ call.stage = "input"
    /\ call' = [call EXCEPT !.stage = "tested",
                   !.result = msprt_test(call.control_data, call.treatment_data,
                                         call.alpha)]
    /\ UNCHANGED <<queue, tasks, store, now, deliveries, status_log>>

NextMsprt == RunMsprt

SpecMsprt == InitMsprt /\ [][NextMsprt]_vars

Tested == call.stage = "tested"

\* The sum of squared deviations from the mean, times len(data)^2
ScaledDeviations(data) ==
    LET s == SumOf(data)
        RECURSIVE Dev(_)
        Dev(d) == IF d = <<>> THEN 0
                  ELSE (Len(data) * Head(d) - s) * (Len(data) * Head(d) - s) + Dev(Tail(d))
    IN  Dev(data)

\* The standardized effect of the call, (mean_treatment - mean_control) /
\* sqrt(se_control^2 + se_treatment^2), is above 1.96 (sign = 1) or below
\* -1.96 (sign = -1).  With n = len, mean = sum / n and
\* se^2 = dev / n^3, where dev = n^2 * variance is ScaledDeviations / n,
\* the comparison cleared of its denominators and its square root is
\*     625 * n_c * n_t * (n_c * sum_t - n_t * sum_c)^2
\*         > 2401 * (n_t^3 * dev_c + n_c^3 * dev_t).  A division by zero counts as an
\* infinite effect of the sign of the difference of the means.
EffectBeyond(sign) ==
    LET c == call.control_data
        t == call.treatment_data
        n_c == Len(c)
        n_t == Len(t)
        d == n_c * SumOf(t) - n_t * SumOf(c)
        dev_c == ScaledDeviations(c) \div n_c
        dev_t == ScaledDeviations(t) \div n_t
    IN  /\ sign * d > 0
        /\ 625 * n_c * n_t * d * d
              > 2401 * (n_t * n_t * n_t * dev_c + n_c * n_c * n_c * dev_t)

\* C16: on two series of at least 10 observations each, msprt_test returns
\* ship_treatment with confidence 0.95 when the standardized effect is above
\* +1.96, ship_control with confidence 0.95 when it is below -1.96, and
\* extend with confidence 0.5 otherwise, whatever alpha is.
C16_MsprtRule ==
    (Tested /\ Len(call.control_data) >= 10 /\ Len(call.treatment_data) >= 10) =>
        /\ EffectBeyond(1) =>
              (call.result.decision = "ship_treatment"
                 /\ call.result.confidence = ShipTreatmentAt)
        /\ EffectBeyond(-1) =>
              (call.result.decision = "ship_control"
                 /\ call.result.confidence = ShipTreatmentAt)
        /\ (~EffectBeyond(1) /\ ~EffectBeyond(-1)) =>
              (call.result.decision = "extend" /\ call.result.confidence = Half)

\* C16 witness: 2 of 10 against 6 of 10 is an effect of 2.0, between 1.96
\* and the 2.576 of alpha = 0.01; the call had alpha = 0.01 and shipped.
C16_Witness ==
    /\ Tested
    /\ call.control_data = Ones(2, 10)
    /\ call.treatment_data = Ones(6, 10)
    /\ call.alpha = 10
    /\ call.result.decision = "ship_treatment"

\* C16, the other two outcomes were produced as well.
C16_WitnessExtend ==
    /\ Tested
    /\ call.control_data = Ones(2, 10)
    /\ call.treatment_data = Ones(5, 11)
    /\ call.result.decision = "extend"
    /\ call.result.reason = Reason("no_significant_difference", <<>>)


----------------------------------------------------------------------------
(* analyze run twice on one spec and one snapshot of counts *)

\* The two runs see the same spec and the same counts; each makes its own
\* sims draws (np.random.beta is not seeded), so each has its own number of
\* winning draws.
InitTwice ==
    /\ queue = <<>>
    /\ tasks = <<>>
    /\ store = <<>>
    /\ now = 0
    /\ deliveries = 0
    /\ status_log = {}
    /\ \E s \in SpecInputs, f \in FetchInputs, w \in WinInputs, v \in WinInputs :
          call = [stage |-> "input", spec |-> s, fetched |-> f,
                  wins |-> w, wins_again |-> v,
                  analysis |-> NoResult, again |-> NoResult]

AnalyzeOnce ==
    /\ call.stage = "input"
    /\ call' = [call EXCEPT !.stage = "once",
                   !.analysis = analyze_experiment(call.spec, call.fetched, call.wins)]
    /\ UNCHANGED <<queue, tasks, store, now, deliveries, status_log>>

AnalyzeAgain ==
    /\ call.stage = "once"
    /\ call' = [call EXCEPT !.stage = "twice",
                   !.again = analyze_experiment(call.spec, call.fetched,
                                                call.wins_again)]
    /\ UNCHANGED <<queue, tasks, store, now, deliveries, status_log>>

NextTwice == AnalyzeOnce \/ AnalyzeAgain

SpecTwice == InitTwice /\ [][NextTwice]_vars

Twice == call.stage = "twice"

\* The metric type the runs dispatch on
TypeOfCall == DictGet(DictGet(call.spec, "primary_metric", <<>>), "type", "rate")

\* C20: idempotence of analyze.  Two runs on the same spec and the same
\* snapshot of counts yield the same decision and the same reason, and for
\* a mean metric the same confidence.
C20_AnalyzeIdempotent ==
    Twice =>
        /\ call.again.decision = call.analysis.decision
        /\ call.again.reason = call.analysis.reason
        /\ TypeOfCall = "mean" => call.again.confidence = call.analysis.confidence

\* C20, what the code gives: the two results are equal in every field
\* whenever the rate test did not run (gate, mean metric, unknown type,
\* failed fetch) or its sampler failed.
C20_IdempotentOffTheRateTest ==
    (/\ Twice
     /\ \/ ~call.fetched.ok
        \/ TotalSample(call.fetched)
               < DictGet(call.spec, "min_sample_size", DefaultMinSample)
        \/ TypeOfCall # "rate"
        \/ Degenerate(call.fetched.counts))
    => call.again = call.analysis

\* C20 witness: 100 of 1000 against 123 of 1000, a posterior probability
\* near 0.95; one run drew just under the threshold and extended, the
\* other drew just over it and shipped.
C20_Witness ==
    /\ Twice
    /\ TypeOfCall = "rate"
    /\ call.fetched.counts = <<100, 1000, 123, 1000>>
    /\ call.wins = ShipTreatmentAt - 1
    /\ call.wins_again = ShipTreatmentAt + 1
    /\ call.analysis.decision = "extend"
    /\ call.again.decision = "ship_treatment"

====
